---- MODULE Spec2Model ----
(***************************************************************************)
(* A model of swagger-converter (src/index.js, lines 124-1092): the        *)
(* conversion of a Swagger 1.x resource listing plus API declarations into *)
(* one Swagger 2.0 document.                                               *)
(*                                                                         *)
(* Representation of JavaScript values                                     *)
(*  - an object is a function whose DOMAIN is the set of its keys; a key   *)
(*    whose value is undefined is simply not in the DOMAIN;                *)
(*  - an array is a sequence;                                              *)
(*  - a string the code looks into (paths, URLs, type names, map keys) is  *)
(*    a sequence of tokens ("Str"); <<>> is the empty string '';           *)
(*  - any other scalar is a TLA+ string: a JSON string stands for itself,  *)
(*    a JSON boolean/number/null is written with a leading '#'             *)
(*    ("#true", "#0", "#null"), undefined is "#undefined".                 *)
(***************************************************************************)
EXTENDS Integers, Sequences, FiniteSets, TLC

VARIABLES
  resourceListing,   \* first argument of SwaggerConverter.convert
  apiDeclarations,   \* second argument: map path -> API declaration
  options,           \* third argument
  result,            \* what convert returned or threw
  pc,                \* "ready" before the call, "done" after it; in between,
                     \* the position of the step-by-step run
  heap,              \* object store of the reference-level model
  input0,            \* the input part of the store as it was before the call
  work,              \* position of the reference-level run of buildDefinitions
  history,           \* the calls of convert made so far: how many, and the
                     \* per-conversion state they left behind
  sourceUrl,         \* first argument of SwaggerConverter.listApiDeclarations
  requests,          \* the fetches and file reads of the callback-based
                     \* converters, in the order they were started
  callback           \* the calls made of the callback handed to them

vars == <<resourceListing, apiDeclarations, options, result, pc, heap, input0, work,
          history, sourceUrl, requests, callback>>

-----------------------------------------------------------------------------
(* Scalars, strings and objects *)

Undef == "#undefined"
Null == "#null"
JsTrue == "#true"
JsFalse == "#false"

\* undefined and null for a value that is a Str
UndefStr == <<"#undefined">>
\* null for a value that is an object
NullObj == ("#null" :> TRUE)

EmptyObj == [k \in {} |-> 0]

Has(o, k) == k \in DOMAIN o

\* o[k] for a scalar-valued key, undefined when the key is missing
Get(o, k) == IF Has(o, k) THEN o[k] ELSE Undef

\* o[k] for a Str-valued key
GetStr(o, k) == IF Has(o, k) THEN o[k] ELSE UndefStr

\* o[k] for an array-valued key: a missing array iterates like an empty one
GetSeq(o, k) == IF Has(o, k) THEN o[k] ELSE <<>>

\* o[k] for an object-valued key: a missing map iterates like an empty one
GetObj(o, k) == IF Has(o, k) THEN o[k] ELSE EmptyObj

\* The JavaScript order of the tokens strings are made of (UTF-16 code units:
\* space, punctuation, upper case, brackets, '_', lower case, '{').
TokenOrder ==
  << " ", "#/definitions/", ",", ".", "..", "/", "//g", "//h", "?",
     "Animal", "Cat", "Dog", "LIST", "List", "Map", "String", "[", "]",
     "_accessCode", "_implicit", "_undefined", "a", "apiKey",
     "authorization_code", "b", "basic", "c", "http:", "https:", "implicit",
     "integer", "json", "k", "list", "map", "n", "oauth2", "password",
     "string", "{format}" >>

Rank(tok) == CHOOSE i \in 1..Len(TokenOrder) : TokenOrder[i] = tok

RECURSIVE LexLess(_, _)
LexLess(s, t) ==
  IF s = <<>> THEN t # <<>>
  ELSE IF t = <<>> THEN FALSE
  ELSE IF Head(s) = Head(t) THEN LexLess(Tail(s), Tail(t))
  ELSE Rank(Head(s)) < Rank(Head(t))

\* Object.keys(collection).sort()
RECURSIVE SortSet(_)
SortSet(S) ==
  IF S = {} THEN <<>>
  ELSE LET m == CHOOSE x \in S : \A y \in S \ {x} : LexLess(x, y)
       IN <<m>> \o SortSet(S \ {m})

SortedKeys(o) == SortSet(DOMAIN o)

Range(s) == {s[i] : i \in DOMAIN s}

-----------------------------------------------------------------------------
(* Utilities of src/index.js *)

\* isValue on a scalar
isValue(value) == value # "" /\ value # Undef /\ value # Null

\* isValue on a Str
isValueStr(value) == value # <<>> /\ value # UndefStr

\* isValue on o[k] where o[k] is an array or a map, or is missing
isValueAt(o, k) == Has(o, k)

\* isValue on o[k] where o[k] is an object with named fields, null, or missing
isValueObjectAt(o, k) == Has(o, k) /\ o[k] # NullObj

\* getLength of a container (array or object); 0 for what is no object
getLength(value) == Cardinality(DOMAIN value)

isEmpty(value) == getLength(value) = 0

\* isEmpty(o[k]) where o[k] is an array or an object, possibly undefined
isEmptyAt(o, k) == IF isValueAt(o, k) THEN isEmpty(o[k]) ELSE TRUE

\* extend(destination, source): every key of source (none is undefined in
\* this representation) is assigned into destination
extend(destination, source) == source @@ destination

\* the source object {k: v} as extend sees it: nothing when v is no value
Opt(k, v) == IF isValue(v) THEN k :> v ELSE EmptyObj
OptStr(k, v) == IF isValueStr(v) THEN k :> v ELSE EmptyObj
\* {k: v} for a container v, empty or not
OptKept(k, v) == k :> v

\* {k: undefinedIfEmpty(v)} for a container v
OptFull(k, v) == IF isEmpty(v) THEN EmptyObj ELSE k :> v

\* Strings that are not JavaScript strings (typeof value !== 'string')
NonStrings == {Undef, Null, JsTrue, JsFalse, "#0", "#1", "#5"}

\* value.toLowerCase() for the words of the model
LowerCase ==
  ("TRUE" :> "true") @@ ("True" :> "true") @@ ("FALSE" :> "false") @@
  ("GET" :> "get") @@ ("POST" :> "post") @@ ("PUT" :> "put") @@
  ("Animal" :> "animal") @@ ("Cat" :> "cat") @@ ("Dog" :> "dog") @@
  ("LIST" :> "list") @@ ("List" :> "list") @@ ("Map" :> "map") @@
  ("String" :> "string")

toLowerCase(w) == IF w \in DOMAIN LowerCase THEN LowerCase[w] ELSE w

\* JSON.parse of the strings of the model that are JSON literals
JsonLiterals ==
  ("0" :> "#0") @@ ("1" :> "#1") @@ ("5" :> "#5") @@ ("null" :> Null) @@
  ("\"q\"" :> "q")

\* fixNonStringValue throws SwaggerConverterError
fixNonStringValueThrows(value, skipError) ==
  /\ value \notin NonStrings
  /\ value # ""
  /\ toLowerCase(value) \notin {"true", "false"}
  /\ value \notin DOMAIN JsonLiterals
  /\ ~skipError

fixNonStringValue(value, skipError) ==
  IF value \in NonStrings THEN value
  ELSE IF value = "" THEN Undef
  ELSE IF toLowerCase(value) = "true" THEN JsTrue
  ELSE IF toLowerCase(value) = "false" THEN JsFalse
  ELSE IF value \in DOMAIN JsonLiterals THEN JsonLiterals[value]
  ELSE Undef

\* removeDuplicates: the values of the array, each kept at its last occurrence
removeDuplicates(collection) ==
  LET keep(i) == /\ isValueStr(collection[i])
                 /\ \A j \in DOMAIN collection :
                      collection[j] = collection[i] => j <= i
      F[i \in 0..Len(collection)] ==
        IF i = 0 THEN <<>>
        ELSE IF keep(i) THEN Append(F[i - 1], collection[i])
        ELSE F[i - 1]
  IN F[Len(collection)]

\* commonPrefix(paths) of the common-prefix package: the longest string every
\* path starts with
RECURSIVE commonPrefixOf(_, _)
commonPrefixOf(paths, n) ==
  IF /\ \A i \in DOMAIN paths : Len(paths[i]) > n
     /\ \A i, j \in DOMAIN paths : paths[i][n + 1] = paths[j][n + 1]
  THEN commonPrefixOf(paths, n + 1)
  ELSE n

commonPrefix(paths) ==
  IF paths = <<>> THEN <<>>
  ELSE SubSeq(paths[1], 1, commonPrefixOf(paths, 0))

\* str.lastIndexOf(tok) + 1
RECURSIVE lastIndexOf1(_, _)
lastIndexOf1(str, tok) ==
  IF str = <<>> THEN 0
  ELSE IF str[Len(str)] = tok THEN Len(str)
  ELSE lastIndexOf1(SubSeq(str, 1, Len(str) - 1), tok)

stripCommonPath(paths) ==
  LET prefixLength == lastIndexOf1(commonPrefix(paths), "/")
  IN [i \in DOMAIN paths |-> SubSeq(paths[i], prefixLength + 1, Len(paths[i]))]

-----------------------------------------------------------------------------
(* The parts of urijs the converter uses, on token strings.  A URL is       *)
(* [scheme token] [host token] path tokens ["?" query tokens].             *)

Schemes == {"http:", "https:"}
Hosts == {"//g", "//h"}

ProtocolOf == ("http:" :> "http") @@ ("https:" :> "https")
HostOf == ("//g" :> "g") @@ ("//h" :> "h")

\* the index of the first token tok in str, Len(str) + 1 when there is none
RECURSIVE indexOf(_, _, _)
indexOf(str, tok, i) ==
  IF i > Len(str) THEN i
  ELSE IF str[i] = tok THEN i
  ELSE indexOf(str, tok, i + 1)

\* URI(str).protocol(), '' as Undef
uriProtocol(str) ==
  IF str # <<>> /\ str[1] \in Schemes THEN ProtocolOf[str[1]] ELSE Undef

uriAfterScheme(str) ==
  IF str # <<>> /\ str[1] \in Schemes THEN Tail(str) ELSE str

\* URI(str).host(), '' as Undef
uriHost(str) ==
  LET r == uriAfterScheme(str)
  IN IF r # <<>> /\ r[1] \in Hosts THEN HostOf[r[1]] ELSE Undef

\* URI(str).path(true): what follows the authority, up to the query; '/'
\* when it is empty and there is a host
uriPath(str) ==
  LET r == uriAfterScheme(str)
      hasHost == r # <<>> /\ r[1] \in Hosts
      p == IF hasHost THEN Tail(r) ELSE r
      q == SubSeq(p, 1, indexOf(p, "?", 1) - 1)
  IN IF q = <<>> /\ hasHost THEN <<"/">> ELSE q

\* the segments of a path: the tokens between its slashes
RECURSIVE segments(_)
segments(p) ==
  IF p = <<>> THEN << <<>> >>
  ELSE LET i == indexOf(p, "/", 1)
       IN IF i > Len(p) THEN <<p>>
          ELSE <<SubSeq(p, 1, i - 1)>> \o segments(SubSeq(p, i + 1, Len(p)))

RECURSIVE joinSegments(_)
joinSegments(segs) ==
  IF Len(segs) = 1 THEN segs[1]
  ELSE segs[1] \o <<"/">> \o joinSegments(Tail(segs))

\* URI.normalizePath of an absolute path: '//' collapsed, '.' segments
\* dropped, a '..' segment removing the segment before it
RECURSIVE normalizeSegments(_, _)
normalizeSegments(segs, out) ==
  IF segs = <<>> THEN out
  ELSE LET s == Head(segs)
           last == Len(segs) = 1
       IN IF s = <<".">> \/ (s = <<>> /\ ~last)
          THEN normalizeSegments(Tail(segs), IF last THEN Append(out, <<>>) ELSE out)
          ELSE IF s = <<"..">>
          THEN normalizeSegments(Tail(segs),
                 LET up == IF out = <<>> THEN out ELSE SubSeq(out, 1, Len(out) - 1)
                 IN IF last THEN Append(up, <<>>) ELSE up)
          ELSE normalizeSegments(Tail(segs), Append(out, s))

normalizePath(p) ==
  joinSegments(<< <<>> >> \o normalizeSegments(Tail(segments(p)), <<>>))

\* URI(base).directory(): the path without its last segment and without the
\* slash before it
uriDirectory(base) ==
  LET n == lastIndexOf1(base, "/")
  IN IF n = 0 THEN <<>> ELSE IF n = 1 THEN <<"/">> ELSE SubSeq(base, 1, n - 1)

\* URI(p).absoluteTo(base).path(true) for a path p without scheme and host
absoluteToPath(p, base) ==
  IF p = <<>> THEN base
  ELSE IF p[1] = "/" THEN p
  ELSE LET p2 == IF p[Len(p)] = ".." THEN Append(p, "/") ELSE p
           d == uriDirectory(base)
           basedir == IF d # <<>> THEN d
                      ELSE IF base # <<>> /\ base[1] = "/" THEN <<"/">> ELSE <<>>
       IN normalizePath((IF basedir # <<>> THEN Append(basedir, "/") ELSE <<>>) \o p2)

\* str.replace(tok, by): the first occurrence only
replaceFirst(str, tok, by) ==
  LET i == indexOf(str, tok, 1)
  IN IF i > Len(str) THEN str
     ELSE SubSeq(str, 1, i - 1) \o <<by>> \o SubSeq(str, i + 1, Len(str))

-----------------------------------------------------------------------------
(* Errors convert can end with *)

NoError == "none"
ErrMixed == "Resource listing can not have both operations and API declarations."
ErrMissing == "resourceListing addressing missing declaration on path"
ErrBasePath == "Resources can not override each other basePaths"
ErrSubTypes == "subTypes resolution: Missing type"
ErrValue == "incorect property value"
ErrType == "TypeError"

\* the first error of a sequence of error values, NoError when there is none
RECURSIVE firstError(_)
firstError(errs) ==
  IF errs = <<>> THEN NoError
  ELSE IF Head(errs) # NoError THEN Head(errs)
  ELSE firstError(Tail(errs))

-----------------------------------------------------------------------------
(* Converter.prototype.getResources *)

\* getResourcesFrom without the check of the declaration: an entry whose
\* path is not declared is passed over
RECURSIVE getResourcesFromUnchecked(_, _, _, _, _)
getResourcesFromUnchecked(apis, apiDecls, i, resources, embedded) ==
  IF i > Len(apis)
  THEN [err |-> NoError, resources |-> resources, embedded |-> embedded]
  ELSE LET resource == apis[i]
           path == GetStr(resource, "path")
       IN IF ~isValueStr(path) \/ ~isEmptyAt(resource, "operations")
          THEN getResourcesFromUnchecked(apis, apiDecls, i + 1, resources, TRUE)
          ELSE IF embedded
          THEN [err |-> ErrMixed, resources |-> resources, embedded |-> embedded]
          ELSE getResourcesFromUnchecked(apis, apiDecls, i + 1,
                 IF isValueObjectAt(apiDecls, path)
                 THEN Append(resources, apiDecls[path]) ELSE resources,
                 embedded)

\* the loop over resourceListing.apis from entry i on
RECURSIVE getResourcesFrom(_, _, _, _, _)
getResourcesFrom(apis, apiDecls, i, resources, embedded) ==
  IF i > Len(apis)
  THEN [err |-> NoError, resources |-> resources, embedded |-> embedded]
  ELSE LET resource == apis[i]
           path == GetStr(resource, "path")
       IN IF ~isValueStr(path) \/ ~isEmptyAt(resource, "operations")
          THEN getResourcesFrom(apis, apiDecls, i + 1, resources, TRUE)
          ELSE IF embedded
          THEN [err |-> ErrMixed, resources |-> resources, embedded |-> embedded]
          ELSE IF ~isValueObjectAt(apiDecls, path)
          THEN [err |-> ErrMissing, resources |-> resources, embedded |-> embedded]
          ELSE getResourcesFrom(apis, apiDecls, i + 1,
                                Append(resources, apiDecls[path]), embedded)

getResources(rl, apiDecls) ==
  LET r == getResourcesFrom(GetSeq(rl, "apis"), apiDecls, 1, <<>>, FALSE)
  IN IF r.err # NoError THEN r
     ELSE IF r.embedded THEN [r EXCEPT !.resources = <<rl>>]
     ELSE r

-----------------------------------------------------------------------------
(* Converter.prototype.buildTags *)

\* the paths the tag names are derived from, before the common prefix is cut
tagSourcePaths(rl, resources, opts) ==
  LET fromResources ==
        IF Get(opts, "buildTagsFromPaths") # JsTrue
        THEN LET rp == [i \in DOMAIN resources |-> GetStr(resources[i], "resourcePath")]
             IN IF getLength(removeDuplicates(rp)) < getLength(resources)
                THEN <<>>
                ELSE rp
        ELSE <<>>
  IN IF isEmpty(fromResources)
     THEN [i \in DOMAIN GetSeq(rl, "apis") |-> GetStr(rl.apis[i], "path")]
     ELSE fromResources

\* commonPrefix reads into every path: a path that is undefined is a TypeError
buildTagsThrows(rl, resources, opts) ==
  \E i \in DOMAIN tagSourcePaths(rl, resources, opts) :
     tagSourcePaths(rl, resources, opts)[i] = UndefStr

\* the name derived for listing entry index, '' when there is none
tagName(resourcePaths, index) ==
  LET p0 == IF index \in DOMAIN resourcePaths /\ isValueStr(resourcePaths[index])
            THEN resourcePaths[index] ELSE <<>>
      p1 == replaceFirst(uriPath(p0), "{format}", "json")
      p2 == IF p1 # <<>> /\ p1[Len(p1)] = "/" THEN SubSeq(p1, 1, Len(p1) - 1) ELSE p1
  IN IF Len(p2) >= 2 /\ p2[Len(p2)] = "json" THEN SubSeq(p2, 1, Len(p2) - 2) ELSE p2

RECURSIVE buildTagsFrom(_, _, _, _)
buildTagsFrom(apis, resourcePaths, index, tags) ==
  IF index > Len(apis) THEN tags
  ELSE LET resource == apis[index]
           name == tagName(resourcePaths, index)
       IN IF ~isEmptyAt(resource, "operations") \/ ~isValueStr(name)
          THEN buildTagsFrom(apis, resourcePaths, index + 1, tags)
          ELSE buildTagsFrom(apis, resourcePaths, index + 1,
                 Append(tags, ("name" :> name)
                              @@ Opt("description", Get(resource, "description"))))

buildTags(rl, resources, opts) ==
  buildTagsFrom(GetSeq(rl, "apis"),
                stripCommonPath(tagSourcePaths(rl, resources, opts)), 1, <<>>)

-----------------------------------------------------------------------------
(* Converter.prototype.buildInfo *)

\* a || b on scalars
Falsy == {Undef, Null, "", JsFalse, "#0"}
OrElse(a, b) == IF a \in Falsy THEN b ELSE a

buildInfo(rl) ==
  LET info == ("title" :> "Title was not specified")
              @@ ("version" :> OrElse(Get(rl, "apiVersion"), "1.0.0"))
  IN IF ~isValueAt(rl, "info") THEN info
     ELSE LET oldInfo == rl.info
              contact == Opt("email", Get(oldInfo, "contact"))
              license == IF isValue(Get(oldInfo, "license"))
                         THEN ("name" :> oldInfo.license)
                              @@ Opt("url", Get(oldInfo, "licenseUrl"))
                         ELSE EmptyObj
          IN extend(info,
               Opt("title", Get(oldInfo, "title"))
               @@ Opt("description", Get(oldInfo, "description"))
               @@ OptFull("contact", contact)
               @@ OptFull("license", license)
               @@ Opt("termsOfService", Get(oldInfo, "termsOfServiceUrl")))

-----------------------------------------------------------------------------
(* Converter.prototype.buildPathComponents, aggregatePathComponents *)

buildPathComponents(basePath) ==
  IF ~isValueStr(basePath) THEN EmptyObj
  ELSE LET hasAuthority == uriProtocol(basePath) # Undef \/ uriHost(basePath) # Undef
           path == IF hasAuthority THEN uriPath(basePath)
                   ELSE absoluteToPath(uriPath(basePath), <<"/">>)
       IN Opt("host", uriHost(basePath))
          @@ OptStr("basePath", path)
          @@ (IF uriProtocol(basePath) # Undef
              THEN "schemes" :> <<uriProtocol(basePath)>> ELSE EmptyObj)

\* /^\.\.?(\/|$)/.test(basePath)
isRelativeBasePath(basePath) ==
  /\ basePath # <<>>
  /\ basePath[1] \in {".", ".."}
  /\ (Len(basePath) = 1 \/ basePath[2] = "/")

\* api.basePath as the loop compares it: a relative one resolved against the
\* path component of the root base path
resolvedBasePath(api, rootPath) ==
  LET basePath == GetStr(api, "basePath")
  IN IF isRelativeBasePath(basePath) THEN absoluteToPath(basePath, rootPath)
     ELSE basePath

\* aggregateFrom comparing only the declarations that have a basePath
RECURSIVE aggregateFromLenient(_, _, _, _, _)
aggregateFromLenient(apiDecls, keys, i, rootPath, globalBasePath) ==
  IF i > Len(keys) THEN [err |-> NoError, globalBasePath |-> globalBasePath]
  ELSE LET api == apiDecls[keys[i]]
       IN IF api = NullObj
          THEN [err |-> ErrType, globalBasePath |-> globalBasePath]
          ELSE LET basePath == IF isRelativeBasePath(GetStr(api, "basePath"))
                               THEN absoluteToPath(GetStr(api, "basePath"), rootPath)
                               ELSE GetStr(api, "basePath")
               IN IF /\ isValueStr(globalBasePath) /\ isValueStr(basePath)
                     /\ basePath # globalBasePath
                  THEN [err |-> ErrBasePath, globalBasePath |-> globalBasePath]
                  ELSE aggregateFromLenient(apiDecls, keys, i + 1, rootPath, basePath)

\* the loop over the API declarations, in the order of their sorted keys
RECURSIVE aggregateFrom(_, _, _, _, _)
aggregateFrom(apiDecls, keys, i, rootPath, globalBasePath) ==
  IF i > Len(keys) THEN [err |-> NoError, globalBasePath |-> globalBasePath]
  ELSE LET api == apiDecls[keys[i]]
       IN IF api = NullObj
          THEN [err |-> ErrType, globalBasePath |-> globalBasePath]
          ELSE LET basePath == resolvedBasePath(api, rootPath)
               IN IF isValueStr(globalBasePath) /\ basePath # globalBasePath
                  THEN [err |-> ErrBasePath, globalBasePath |-> globalBasePath]
                  ELSE aggregateFrom(apiDecls, keys, i + 1, rootPath, basePath)

aggregatePathComponents(rl, apiDecls) ==
  LET path == buildPathComponents(GetStr(rl, "basePath"))
      r == aggregateFrom(apiDecls, SortedKeys(apiDecls), 1,
                         GetStr(path, "basePath"), UndefStr)
  IN [err |-> r.err,
      path |-> IF r.err # NoError THEN EmptyObj
               ELSE extend(path, buildPathComponents(r.globalBasePath))]

-----------------------------------------------------------------------------
(* Converter.prototype.buildTypeProperties *)

\* oldType.trim()
RECURSIVE trim(_)
trim(str) ==
  IF str = <<>> THEN str
  ELSE IF Head(str) = " " THEN trim(Tail(str))
  ELSE IF str[Len(str)] = " " THEN trim(SubSeq(str, 1, Len(str) - 1))
  ELSE str

typeMap ==
  ("integer" :> [type |-> <<"integer">>]) @@
  ("number" :> [type |-> <<"number">>]) @@
  ("string" :> [type |-> <<"string">>]) @@
  ("boolean" :> [type |-> <<"boolean">>]) @@
  ("array" :> [type |-> <<"array">>]) @@
  ("object" :> [type |-> <<"object">>]) @@
  ("file" :> [type |-> <<"file">>]) @@
  ("void" :> EmptyObj) @@
  ("int" :> [type |-> <<"integer">>, format |-> "int32"]) @@
  ("long" :> [type |-> <<"integer">>, format |-> "int64"]) @@
  ("float" :> [type |-> <<"number">>, format |-> "float"]) @@
  ("double" :> [type |-> <<"number">>, format |-> "double"]) @@
  ("byte" :> [type |-> <<"string">>, format |-> "byte"]) @@
  ("date" :> [type |-> <<"string">>, format |-> "date"]) @@
  ("list" :> [type |-> <<"array">>]) @@
  ("set" :> [type |-> <<"array">>, uniqueItems |-> JsTrue]) @@
  ("any" :> EmptyObj) @@
  ("datetime" :> [type |-> <<"string">>, format |-> "date-time"]) @@
  ("date-time" :> [type |-> <<"string">>, format |-> "date-time"]) @@
  ("map" :> [type |-> <<"object">>])

\* str.toLowerCase() as a key of typeMap: a string of one word, lower-cased;
\* "" for a string that is not one word (no key of typeMap)
lowerWord(str) == IF Len(str) = 1 THEN toLowerCase(str[1]) ELSE ""

RefPrefix == "#/definitions/"

\* {$ref: '#/definitions/' + name}
refTo(name) == "$ref" :> (<<RefPrefix>> \o name)

\* isCustomType that gives way to the names of typeMap
isCustomTypeUnlessMapped(oldType, allowRef, customTypes) ==
  allowRef /\ oldType \in Range(customTypes) /\ lowerWord(oldType) \notin DOMAIN typeMap

\* allowRef && this.customTypes.indexOf(oldType) !== -1
isCustomType(oldType, allowRef, customTypes) ==
  allowRef /\ oldType \in Range(customTypes)

RECURSIVE buildTypeProperties(_, _, _)
buildTypeProperties(oldType0, allowRef, customTypes) ==
  IF ~isValueStr(oldType0) THEN EmptyObj
  ELSE
  LET oldType == trim(oldType0)
      open == indexOf(oldType, "[", 1)
      \* oldType.match(/^([^[]*)\[(.*)\]$/)
      match == open < Len(oldType) /\ oldType[Len(oldType)] = "]"
      collection == lowerWord(SubSeq(oldType, 1, open - 1))
      items == SubSeq(oldType, open + 1, Len(oldType) - 1)
      commaIndex == indexOf(items, ",", 1)
      keyType == SubSeq(items, 1, commaIndex - 1)
      valueType == SubSeq(items, commaIndex + 1, Len(items))
      asIs == IF allowRef THEN refTo(oldType)
              ELSE [type |-> oldType]
  IN IF isCustomType(oldType, allowRef, customTypes)
     THEN refTo(oldType)
     ELSE IF lowerWord(oldType) \in DOMAIN typeMap
     THEN typeMap[lowerWord(oldType)]
     ELSE IF match /\ collection = "map"
     THEN IF commaIndex <= Len(items) /\ lowerWord(keyType) = "string"
          THEN [additionalProperties |->
                  buildTypeProperties(valueType, allowRef, customTypes)]
          ELSE asIs
     ELSE IF match /\ collection \in DOMAIN typeMap
     THEN ("items" :> buildTypeProperties(items, allowRef, customTypes))
          @@ typeMap[collection]
     ELSE asIs

-----------------------------------------------------------------------------
(* Converter.prototype.buildDataType *)

\* a || b on Strs
OrElseStr(a, b) == IF isValueStr(a) THEN a ELSE b

oldTypeNameOf(oldDataType) ==
  OrElseStr(GetStr(oldDataType, "type"),
    OrElseStr(GetStr(oldDataType, "dataType"),
      OrElseStr(GetStr(oldDataType, "responseClass"),
                GetStr(oldDataType, "$ref"))))

\* items written as a string stands for {type: items}
itemsObject(oldItems) ==
  IF Has(oldItems, "#string") THEN [type |-> oldItems["#string"]] ELSE oldItems

\* fixNonStringValue throws on one of the fields buildDataType converts
RECURSIVE buildDataTypeThrows(_)
buildDataTypeThrows(oldDataType) ==
  \/ /\ isValueAt(oldDataType, "items")
     /\ buildDataTypeThrows(itemsObject(oldDataType.items))
  \/ \E f \in {"uniqueItems", "minimum", "maximum"} :
       fixNonStringValueThrows(Get(oldDataType, f), FALSE)

RECURSIVE buildDataType(_, _, _)
buildDataType(oldDataType, allowRef, customTypes) ==
  LET typed == buildTypeProperties(oldTypeNameOf(oldDataType), allowRef, customTypes)
      default0 == OrElse(Get(oldDataType, "default"), Get(oldDataType, "defaultValue"))
      defaultValue == IF GetStr(typed, "type") # <<"string">>
                      THEN fixNonStringValue(default0, TRUE)
                      ELSE default0
      built ==
        extend(typed,
          Opt("format", Get(oldDataType, "format"))
          @@ (IF isValueAt(oldDataType, "items")
              THEN "items" :> buildDataType(itemsObject(oldDataType.items),
                                            allowRef, customTypes)
              ELSE EmptyObj)
          @@ Opt("uniqueItems", fixNonStringValue(Get(oldDataType, "uniqueItems"), FALSE))
          @@ Opt("minimum", fixNonStringValue(Get(oldDataType, "minimum"), FALSE))
          @@ Opt("maximum", fixNonStringValue(Get(oldDataType, "maximum"), FALSE))
          @@ Opt("default", defaultValue)
          @@ (IF Has(oldDataType, "enum") THEN "enum" :> oldDataType.enum ELSE EmptyObj))
  IN IF GetStr(built, "type") = <<"array">> /\ ~Has(built, "items")
     THEN ("items" :> EmptyObj) @@ built
     ELSE built

-----------------------------------------------------------------------------
(* Converter.prototype.buildModel, buildDefinitions *)

RECURSIVE buildModelThrows(_)
buildModelThrows(oldModel) ==
  \/ \E name \in DOMAIN GetObj(oldModel, "properties") :
       \/ fixNonStringValueThrows(Get(oldModel.properties[name], "required"), FALSE)
       \/ buildModelThrows(oldModel.properties[name])
  \/ isValueAt(oldModel, "items") /\ buildModelThrows(oldModel.items)
  \/ buildDataTypeThrows(oldModel)

\* the names of the properties marked required, in the order of the loop
requiredProperties(oldProperties) ==
  SelectSeq(SortedKeys(oldProperties),
            LAMBDA name :
              fixNonStringValue(Get(oldProperties[name], "required"), FALSE) = JsTrue)

RECURSIVE buildModel(_, _)
buildModel(oldModel, customTypes) ==
  LET oldProperties == GetObj(oldModel, "properties")
      required == IF Has(oldModel, "required[]") THEN oldModel["required[]"]
                  ELSE requiredProperties(oldProperties)
      properties == [name \in DOMAIN oldProperties |->
                       buildModel(oldProperties[name], customTypes)]
      items == IF isValueAt(oldModel, "items")
               THEN buildModel(oldModel.items, customTypes) ELSE EmptyObj
  IN extend(buildDataType(oldModel, TRUE, customTypes),
       Opt("description", Get(oldModel, "description"))
       @@ OptFull("required", required)
       @@ OptFull("properties", properties)
       @@ Opt("discriminator", Get(oldModel, "discriminator"))
       @@ Opt("example", Get(oldModel, "example"))
       @@ OptFull("items", items))

\* the pairs <<parentId, childId>> of the second loop of buildDefinitions, in
\* the order the loop meets them
RECURSIVE subTypePairs(_, _)
subTypePairs(oldModels, parentIds) ==
  IF parentIds = <<>> THEN <<>>
  ELSE LET parentId == Head(parentIds)
           subTypes == GetSeq(oldModels[parentId], "subTypes")
       IN [i \in DOMAIN subTypes |-> <<parentId, subTypes[i]>>]
          \o subTypePairs(oldModels, Tail(parentIds))

\* addParent that puts the reference to the parent in front of allOf
addParentFirst(models, parentId, childId) ==
  LET child == models[childId]
      wrapped == IF Has(child, "allOf") THEN child ELSE [allOf |-> <<child>>]
  IN [models EXCEPT ![childId] =
        [wrapped EXCEPT !.allOf = <<refTo(parentId)>> \o @]]

\* one pass of the second loop: child wrapped into allOf once, then the
\* reference to the parent pushed
addParent(models, parentId, childId) ==
  LET child == models[childId]
      wrapped == IF Has(child, "allOf") THEN child ELSE [allOf |-> <<child>>]
  IN [models EXCEPT ![childId] =
        [wrapped EXCEPT !.allOf = Append(@, refTo(parentId))]]

RECURSIVE applySubTypes(_, _)
applySubTypes(models, pairs) ==
  IF pairs = <<>> THEN [err |-> NoError, models |-> models]
  ELSE IF Head(pairs)[2] \notin DOMAIN models
  THEN [err |-> ErrSubTypes, models |-> models]
  ELSE applySubTypes(addParent(models, Head(pairs)[1], Head(pairs)[2]), Tail(pairs))

buildDefinitions(oldModels, customTypes) ==
  IF \E modelId \in DOMAIN oldModels : buildModelThrows(oldModels[modelId])
  THEN [err |-> ErrValue, models |-> EmptyObj]
  ELSE applySubTypes(
         [modelId \in DOMAIN oldModels |-> buildModel(oldModels[modelId], customTypes)],
         subTypePairs(oldModels, SortedKeys(oldModels)))

-----------------------------------------------------------------------------
(* Converter.prototype.buildSecurityDefinitions, buildSecurity *)

\* the scopes object of one authorization
scopesOf(oldScopes) ==
  [name \in {oldScopes[i].scope : i \in DOMAIN oldScopes} |->
     LET last == CHOOSE i \in DOMAIN oldScopes :
                   /\ oldScopes[i].scope = name
                   /\ \A j \in DOMAIN oldScopes : oldScopes[j].scope = name => j <= i
     IN IF isValueStr(GetStr(oldScopes[last], "description"))
        THEN oldScopes[last].description
        ELSE <<"Undescribed ", name>>]

\* securityDefinition before the grant types are looked at
securityDefinitionOf(oldAuthorization) ==
  LET type == Get(oldAuthorization, "type")
  IN Opt("type", IF type = "basicAuth" THEN "basic" ELSE type)
     @@ Opt("in", Get(oldAuthorization, "passAs"))
     @@ Opt("name", Get(oldAuthorization, "keyname"))
     @@ OptFull("scopes", scopesOf(GetSeq(oldAuthorization, "scopes")))

\* getValue(object, a, b)
getValue2(object, a, b) == Get(GetObj(object, a), b)

grantParametersOf(oldGrantType, gtName) ==
  IF gtName = <<"implicit">>
  THEN ("flow" :> "implicit")
       @@ Opt("authorizationUrl", getValue2(oldGrantType, "loginEndpoint", "url"))
  ELSE IF gtName = <<"authorization_code">>
  THEN ("flow" :> "accessCode")
       @@ Opt("tokenUrl", getValue2(oldGrantType, "tokenEndpoint", "url"))
       @@ Opt("authorizationUrl", getValue2(oldGrantType, "tokenRequestEndpoint", "url"))
  ELSE EmptyObj

\* '_' + grantParameters.flow
flowSuffix(grantParameters) ==
  IF ~Has(grantParameters, "flow") THEN "_undefined"
  ELSE IF grantParameters.flow = "implicit" THEN "_implicit"
  ELSE "_accessCode"

\* securityName that adds the flow to the name whatever the number of grant
\* types is
securityNamePerFlow(oldAuthorization, name, gtName) ==
  Append(name, flowSuffix(grantParametersOf(oldAuthorization.grantTypes[gtName], gtName)))

\* the Swagger 2.0 name of the definition made for grant type gtName
securityName(oldAuthorization, name, gtName) ==
  IF getLength(oldAuthorization.grantTypes) > 1
  THEN Append(name, flowSuffix(grantParametersOf(oldAuthorization.grantTypes[gtName], gtName)))
  ELSE name

\* this.securityNamesMap after buildSecurityDefinitions
securityNamesMapOf(oldAuthorizations) ==
  [name \in DOMAIN oldAuthorizations |->
     LET oldAuthorization == oldAuthorizations[name]
     IN IF ~isValueAt(oldAuthorization, "grantTypes") THEN <<name>>
        ELSE LET gts == SortedKeys(oldAuthorization.grantTypes)
             IN [i \in DOMAIN gts |-> securityName(oldAuthorization, name, gts[i])]]

\* the definitions one authorization contributes, in the order they are
\* assigned: pairs <<name, definition>>
securityDefinitionsFor(oldAuthorization, name) ==
  IF ~isValueAt(oldAuthorization, "grantTypes")
  THEN << <<name, securityDefinitionOf(oldAuthorization)>> >>
  ELSE LET gts == SortedKeys(oldAuthorization.grantTypes)
       IN [i \in DOMAIN gts |->
             <<securityName(oldAuthorization, name, gts[i]),
               extend(securityDefinitionOf(oldAuthorization),
                      grantParametersOf(oldAuthorization.grantTypes[gts[i]], gts[i]))>>]

\* assignments obj[pair[1]] = pair[2] made in order
RECURSIVE assignAll(_, _)
assignAll(obj, pairs) ==
  IF pairs = <<>> THEN obj
  ELSE assignAll((Head(pairs)[1] :> Head(pairs)[2]) @@ obj, Tail(pairs))

RECURSIVE flatten(_)
flatten(seqs) == IF seqs = <<>> THEN <<>> ELSE Head(seqs) \o flatten(Tail(seqs))

buildSecurityDefinitions(oldAuthorizations) ==
  LET names == SortedKeys(oldAuthorizations)
  IN assignAll(EmptyObj,
       flatten([i \in DOMAIN names |->
                  securityDefinitionsFor(oldAuthorizations[names[i]], names[i])]))

\* buildSecurity that leaves out the names the map has nothing for
buildSecurityMappedOnly(oldAuthorizations, securityNamesMap) ==
  LET oldNames == SortedKeys(oldAuthorizations)
      requirementsOf(oldName) ==
        LET names == IF Has(securityNamesMap, oldName)
                     THEN securityNamesMap[oldName] ELSE <<>>
            oldScopes == oldAuthorizations[oldName]
        IN [i \in DOMAIN names |->
              names[i] :> [j \in DOMAIN oldScopes |-> oldScopes[j].scope]]
  IN flatten([i \in DOMAIN oldNames |-> requirementsOf(oldNames[i])])

buildSecurity(oldAuthorizations, securityNamesMap) ==
  LET oldNames == SortedKeys(oldAuthorizations)
      requirementsOf(oldName) ==
        LET mapped == IF Has(securityNamesMap, oldName)
                      THEN securityNamesMap[oldName] ELSE <<>>
            names == IF isEmpty(mapped) THEN <<oldName>> ELSE mapped
            oldScopes == oldAuthorizations[oldName]
        IN [i \in DOMAIN names |->
              names[i] :> [j \in DOMAIN oldScopes |-> oldScopes[j].scope]]
  IN flatten([i \in DOMAIN oldNames |-> requirementsOf(oldNames[i])])

-----------------------------------------------------------------------------
(* Converter.prototype.buildParameter *)

\* the keys of a parameter that match /^X-/i
ExtensionKeys == {"x-ext", "X-Ext"}

\* buildParameterThrows that converts allowMultiple of a body parameter too
buildParameterThrowsBody(oldParameter) ==
  \/ fixNonStringValueThrows(Get(oldParameter, "required"), FALSE)
  \/ buildDataTypeThrows(oldParameter)
  \/ fixNonStringValueThrows(Get(oldParameter, "allowMultiple"), FALSE)

buildParameterThrows(oldParameter) ==
  \/ fixNonStringValueThrows(Get(oldParameter, "required"), FALSE)
  \/ buildDataTypeThrows(oldParameter)
  \/ /\ Get(oldParameter, "paramType") # "body"
     /\ fixNonStringValueThrows(Get(oldParameter, "allowMultiple"), FALSE)

\* a parameter without a type is a string
typedParameter(schema) ==
  IF ~isValueStr(GetStr(schema, "type"))
  THEN ("type" :> <<"string">>) @@ schema ELSE schema

\* items of an array parameter without a type are strings
typedItems(schema) ==
  IF schema.type = <<"array">> /\ ~isValueStr(GetStr(schema.items, "type"))
  THEN [schema EXCEPT !.items = ("type" :> <<"string">>) @@ @]
  ELSE schema

\* multiple that wraps whatever the type is, an array into an array of arrays
multipleAlways(schema, allowMultiple) ==
  IF allowMultiple = JsTrue
  THEN [type |-> <<"array">>, items |-> schema]
  ELSE schema

\* allowMultiple turns a non-array parameter into an array of it
multiple(schema, allowMultiple) ==
  IF allowMultiple = JsTrue /\ schema.type # <<"array">>
  THEN [type |-> <<"array">>, items |-> schema]
  ELSE schema

\* pathRequired that leaves required as the parameter declares it
pathRequiredAsDeclared(schema, in) == schema

\* a path parameter is required
pathRequired(schema, in) ==
  IF in = "path" THEN ("required" :> JsTrue) @@ schema ELSE schema

\* withCollectionFormat that sets 'multi' wherever the parameter is
withCollectionFormatAnywhere(schema, collectionFormat, in) ==
  IF isValue(collectionFormat) /\ schema.type = <<"array">>
  THEN ("collectionFormat" :> collectionFormat) @@ schema
  ELSE schema

\* options.collectionFormat set on an array parameter
withCollectionFormat(schema, collectionFormat, in) ==
  IF /\ isValue(collectionFormat)
     /\ schema.type = <<"array">>
     /\ (collectionFormat # "multi" \/ in \notin {"path", "formData"})
  THEN ("collectionFormat" :> collectionFormat) @@ schema
  ELSE schema

\* oldParameter.paramType with 'form' renamed
inOf(oldParameter) ==
  IF Get(oldParameter, "paramType") = "form" THEN "formData"
  ELSE Get(oldParameter, "paramType")

\* the fields of the parameter set before its type is looked at
parameterOf(oldParameter) ==
  Opt("in", inOf(oldParameter))
  @@ Opt("description", Get(oldParameter, "description"))
  @@ Opt("name", Get(oldParameter, "name"))
  @@ Opt("required", fixNonStringValue(Get(oldParameter, "required"), FALSE))
  @@ [k \in DOMAIN oldParameter \cap ExtensionKeys |-> oldParameter[k]]

\* the body parameter: its name defaults to 'body'
bodyParameter(parameter, schema) ==
  (IF ~Has(parameter, "name") THEN "name" :> "body" ELSE EmptyObj)
  @@ ("schema" :> schema)
  @@ parameter

buildParameter(oldParameter, opts, customTypes) ==
  IF Get(oldParameter, "paramType") = "body"
  THEN bodyParameter(parameterOf(oldParameter),
                     buildDataType(oldParameter, TRUE, customTypes))
  ELSE extend(parameterOf(oldParameter),
         withCollectionFormat(
           pathRequired(
             multiple(
               typedItems(typedParameter(buildDataType(oldParameter, FALSE, customTypes))),
               fixNonStringValue(Get(oldParameter, "allowMultiple"), FALSE)),
             inOf(oldParameter)),
           Get(opts, "collectionFormat"), inOf(oldParameter)))

-----------------------------------------------------------------------------
(* Converter.prototype.buildResponses, buildOperation, buildPaths *)

\* '' + oldResponse.code
CodeString ==
  ("#200" :> "200") @@ ("200" :> "200") @@ ("#404" :> "404") @@ ("404" :> "404")
  @@ (Undef :> "undefined")

responseOf(oldResponse, customTypes) ==
  ("description" :> OrElse(Get(oldResponse, "message"), "Description was not specified"))
  @@ OptFull("schema",
       buildTypeProperties(GetStr(oldResponse, "responseModel"), TRUE, customTypes))

\* buildResponses that starts from an empty map: the entry '200' exists only
\* when a response message or a response type makes it
buildResponsesNoDefault(oldOperation, customTypes) ==
  LET messages == GetSeq(oldOperation, "responseMessages")
      responses ==
        assignAll(EmptyObj,
          [i \in DOMAIN messages |->
             <<CodeString[Get(messages[i], "code")],
               responseOf(messages[i], customTypes)>>])
      schema == OptFull("schema", buildDataType(oldOperation, TRUE, customTypes))
  IN IF schema = EmptyObj THEN responses
     ELSE ("200" :> extend(IF Has(responses, "200") THEN responses["200"] ELSE EmptyObj,
                           schema)) @@ responses

\* buildResponses that applies the data type of the operation to the default
\* response before the response messages are assigned
buildResponsesOwnFirst(oldOperation, customTypes) ==
  LET messages == GetSeq(oldOperation, "responseMessages")
  IN assignAll(
       "200" :> extend([description |-> "No response was specified"],
                       OptFull("schema", buildDataType(oldOperation, TRUE, customTypes))),
       [i \in DOMAIN messages |->
          <<CodeString[Get(messages[i], "code")],
            responseOf(messages[i], customTypes)>>])

buildResponses(oldOperation, customTypes) ==
  LET messages == GetSeq(oldOperation, "responseMessages")
      responses ==
        assignAll("200" :> [description |-> "No response was specified"],
          [i \in DOMAIN messages |->
             <<CodeString[Get(messages[i], "code")],
               responseOf(messages[i], customTypes)>>])
  IN [responses EXCEPT !["200"] =
        extend(@, OptFull("schema", buildDataType(oldOperation, TRUE, customTypes)))]

buildOperationThrows(oldOperation) ==
  \/ \E i \in DOMAIN GetSeq(oldOperation, "parameters") :
       buildParameterThrows(oldOperation.parameters[i])
  \/ fixNonStringValueThrows(Get(oldOperation, "deprecated"), FALSE)
  \/ buildDataTypeThrows(oldOperation)

\* ctx: [options, customTypes, securityNamesMap] of the converter
buildOperation(oldOperation, operationDefaults, ctx) ==
  LET oldParameters == GetSeq(oldOperation, "parameters")
      parameters == [i \in DOMAIN oldParameters |->
                       buildParameter(oldParameters[i], ctx.options, ctx.customTypes)]
      tags == removeDuplicates(
                GetSeq(operationDefaults, "tags") \o GetSeq(oldOperation, "tags"))
  IN extend(operationDefaults,
       Opt("operationId", Get(oldOperation, "nickname"))
       @@ Opt("summary", Get(oldOperation, "summary"))
       @@ Opt("description",
              OrElse(Get(oldOperation, "description"), Get(oldOperation, "notes")))
       @@ OptFull("tags", tags)
       @@ Opt("deprecated", fixNonStringValue(Get(oldOperation, "deprecated"), FALSE))
       @@ (IF Has(oldOperation, "produces")
           THEN "produces" :> oldOperation.produces ELSE EmptyObj)
       @@ (IF Has(oldOperation, "consumes")
           THEN "consumes" :> oldOperation.consumes ELSE EmptyObj)
       @@ OptFull("parameters", parameters)
       @@ ("responses" :> buildResponses(oldOperation, ctx.customTypes))
       @@ OptFull("security",
            buildSecurity(GetObj(oldOperation, "authorizations"), ctx.securityNamesMap)))

\* operationDefaultsOf without the security of the API declaration
operationDefaultsOfNoSecurity(apiDeclaration, tags, ctx) ==
  (IF Has(apiDeclaration, "produces")
   THEN "produces" :> apiDeclaration.produces ELSE EmptyObj)
  @@ (IF Has(apiDeclaration, "consumes")
      THEN "consumes" :> apiDeclaration.consumes ELSE EmptyObj)
  @@ (IF tags # <<>> THEN "tags" :> tags ELSE EmptyObj)

\* the defaults buildPaths hands to every operation of an API declaration
operationDefaultsOf(apiDeclaration, tags, ctx) ==
  (IF Has(apiDeclaration, "produces")
   THEN "produces" :> apiDeclaration.produces ELSE EmptyObj)
  @@ (IF Has(apiDeclaration, "consumes")
      THEN "consumes" :> apiDeclaration.consumes ELSE EmptyObj)
  @@ (IF tags # <<>> THEN "tags" :> tags ELSE EmptyObj)
  @@ OptFull("security",
       buildSecurity(GetObj(apiDeclaration, "authorizations"), ctx.securityNamesMap))

\* URI(api.path).absoluteTo('/').path(true).replace('{format}', 'json')
pathStringOf(path) ==
  replaceFirst(absoluteToPath(uriPath(path), <<"/">>), "{format}", "json")

\* oldOperation.method || oldOperation.httpMethod, lower-cased
methodOf(oldOperation) ==
  toLowerCase(OrElse(Get(oldOperation, "method"), Get(oldOperation, "httpMethod")))

\* the operations of an API declaration in the order buildPaths meets them:
\* triples <<pathString, method, oldOperation>>
operationsOf(apiDeclaration) ==
  LET apis == GetSeq(apiDeclaration, "apis")
  IN flatten([i \in DOMAIN apis |->
       IF ~isValueAt(apis[i], "operations") THEN <<>>
       ELSE [j \in DOMAIN apis[i].operations |->
               <<pathStringOf(GetStr(apis[i], "path")),
                 methodOf(apis[i].operations[j]), apis[i].operations[j]>>]])

buildPathsThrows(apiDeclaration) ==
  \E i \in DOMAIN operationsOf(apiDeclaration) :
     buildOperationThrows(operationsOf(apiDeclaration)[i][3])

\* paths[pathString][method] = operation, for the triples in order
RECURSIVE assignOperations(_, _, _, _)
assignOperations(paths, triples, operationDefaults, ctx) ==
  IF triples = <<>> THEN paths
  ELSE LET t == Head(triples)
           path == IF Has(paths, t[1]) THEN paths[t[1]] ELSE EmptyObj
       IN assignOperations(
            (t[1] :> ((t[2] :> buildOperation(t[3], operationDefaults, ctx)) @@ path))
              @@ paths,
            Tail(triples), operationDefaults, ctx)

\* the keys of paths that an api entry with operations creates even when the
\* list of operations is empty
emptyPathItems(apiDeclaration) ==
  LET apis == GetSeq(apiDeclaration, "apis")
  IN [p \in {pathStringOf(GetStr(apis[i], "path")) :
               i \in {j \in DOMAIN apis : isValueAt(apis[j], "operations")}}
        |-> EmptyObj]

buildPaths(apiDeclaration, tags, ctx) ==
  assignOperations(emptyPathItems(apiDeclaration), operationsOf(apiDeclaration),
                   operationDefaultsOf(apiDeclaration, tags, ctx), ctx)

-----------------------------------------------------------------------------
(* Converter.prototype.convert *)

\* this.customTypes: the model ids of all resources
customTypesOf(resources) ==
  flatten([i \in DOMAIN resources |-> SortedKeys(GetObj(resources[i], "models"))])

\* operationTags of the resource at index: the name of tags[index], if any
operationTagsOf(tags, index) ==
  IF index \in DOMAIN tags THEN <<tags[index].name>> ELSE <<>>

\* convertResources that assigns the definitions of a resource instead of
\* extending the ones gathered so far
RECURSIVE convertResourcesAssigning(_, _, _, _, _, _)
convertResourcesAssigning(resources, tags, ctx, index, definitions, paths) ==
  IF index > Len(resources)
  THEN [err |-> NoError, definitions |-> definitions, paths |-> paths]
  ELSE LET resource == resources[index]
           built == buildDefinitions(GetObj(resource, "models"), ctx.customTypes)
       IN IF built.err # NoError
          THEN [err |-> built.err, definitions |-> definitions, paths |-> paths]
          ELSE IF buildPathsThrows(resource)
          THEN [err |-> ErrValue, definitions |-> definitions, paths |-> paths]
          ELSE convertResourcesAssigning(resources, tags, ctx, index + 1,
                 built.models,
                 extend(paths, buildPaths(resource, operationTagsOf(tags, index), ctx)))

\* the second loop over the resources from index on: definitions and paths
\* extended resource by resource, up to the first error
RECURSIVE convertResources(_, _, _, _, _, _)
convertResources(resources, tags, ctx, index, definitions, paths) ==
  IF index > Len(resources)
  THEN [err |-> NoError, definitions |-> definitions, paths |-> paths]
  ELSE LET resource == resources[index]
           built == buildDefinitions(GetObj(resource, "models"), ctx.customTypes)
       IN IF built.err # NoError
          THEN [err |-> built.err, definitions |-> definitions, paths |-> paths]
          ELSE IF buildPathsThrows(resource)
          THEN [err |-> ErrValue, definitions |-> definitions, paths |-> paths]
          ELSE convertResources(resources, tags, ctx, index + 1,
                 extend(definitions, built.models),
                 extend(paths, buildPaths(resource, operationTagsOf(tags, index), ctx)))

Thrown(err) == [threw |-> err, document |-> EmptyObj]

\* the per-conversion state of a Converter that kept the custom types and
\* the security names of the call before
conversionStateKept(left, opts, resources, oldAuthorizations) ==
  [options |-> opts,
   customTypes |-> GetSeq(left, "customTypes") \o customTypesOf(resources),
   securityNamesMap |-> securityNamesMapOf(oldAuthorizations)
                        @@ GetObj(left, "securityNamesMap")]

\* the per-conversion state of the Converter of a call: a new Converter with
\* the options of the call, securityNamesMap and customTypes made from
\* nothing; of what the calls before have left nothing is read
conversionState(left, opts, resources, oldAuthorizations) ==
  [options |-> opts,
   customTypes |-> customTypesOf(resources),
   securityNamesMap |-> securityNamesMapOf(oldAuthorizations)]

\* the fields of the Converter when the call ends
converterLeft(left, rl, apiDecls, opts) ==
  IF \/ getResources(rl, apiDecls).err # NoError
     \/ buildTagsThrows(rl, getResources(rl, apiDecls).resources, opts)
  THEN [options |-> opts]
  ELSE conversionState(left, opts, getResources(rl, apiDecls).resources,
                       GetObj(rl, "authorizations"))

\* SwaggerConverter.convert called after calls that left the state left
convertAfter(left, rl, apiDecls, opts) ==
  LET got == getResources(rl, apiDecls)
      resources == got.resources
      tags == buildTags(rl, resources, opts)
      oldAuthorizations == GetObj(rl, "authorizations")
      securityDefinitions == buildSecurityDefinitions(oldAuthorizations)
      ctx == conversionState(left, opts, resources, oldAuthorizations)
      done == convertResources(resources, tags, ctx, 1, EmptyObj, EmptyObj)
      components == aggregatePathComponents(rl, apiDecls)
  IN IF got.err # NoError THEN Thrown(got.err)
     ELSE IF buildTagsThrows(rl, resources, opts) THEN Thrown(ErrType)
     ELSE IF done.err # NoError THEN Thrown(done.err)
     ELSE IF components.err # NoError THEN Thrown(components.err)
     ELSE [threw |-> NoError,
           document |->
             extend(components.path,
               ("swagger" :> "2.0")
               @@ ("info" :> buildInfo(rl))
               @@ OptFull("tags", tags)
               @@ OptFull("paths", done.paths)
               @@ OptFull("securityDefinitions", securityDefinitions)
               @@ OptFull("definitions", done.definitions))]

\* SwaggerConverter.convert as the first call
convert(rl, apiDecls, opts) == convertAfter(EmptyObj, rl, apiDecls, opts)

-----------------------------------------------------------------------------
(* SwaggerConverter.listApiDeclarations *)

\* URI(str): the parts of a URL
uriParts(str) ==
  LET r == uriAfterScheme(str)
      q == indexOf(str, "?", 1)
  IN [protocol |-> IF str # <<>> /\ str[1] \in Schemes THEN <<str[1]>> ELSE <<>>,
      host |-> IF r # <<>> /\ r[1] \in Hosts THEN <<r[1]>> ELSE <<>>,
      path |-> uriPath(str),
      query |-> SubSeq(str, q + 1, Len(str))]

\* uri.href()
uriHref(parts) ==
  parts.protocol \o parts.host \o parts.path
  \o (IF parts.query # <<>> THEN <<"?">> \o parts.query ELSE <<>>)

\* uri.is('relative')
uriIsRelative(parts) == parts.protocol = <<>>

\* uri.absoluteTo(base) for a relative uri
uriAbsoluteTo(parts, base) ==
  IF parts.host # <<>> THEN [parts EXCEPT !.protocol = base.protocol]
  ELSE [protocol |-> base.protocol,
        host |-> base.host,
        path |-> absoluteToPath(parts.path, base.path),
        query |-> IF parts.path = <<>> /\ parts.query = <<>> THEN base.query
                  ELSE parts.query]

\* uri.filename()
uriFilename(parts) ==
  SubSeq(parts.path, lastIndexOf1(parts.path, "/") + 1, Len(parts.path))

\* the tokens a suffix may be made of: /^[a-z0-9%]+$/i
SuffixTokens == {"json", "a", "b", "c", "k", "n"}

\* uri.suffix(): what follows the last dot of the file name
uriSuffix(parts) ==
  LET filename == uriFilename(parts)
      dot == lastIndexOf1(filename, ".")
  IN IF dot > 0 /\ dot + 1 = Len(filename) /\ filename[Len(filename)] \in SuffixTokens
     THEN filename[Len(filename)]
     ELSE ""

\* uri.filename(''): the path without its file name
uriNoFilename(parts) ==
  [parts EXCEPT !.path = SubSeq(@, 1, lastIndexOf1(@, "/"))]

\* the query as uri.normalize() writes it: a slash is encoded
normalizeQuery(query) ==
  [i \in DOMAIN query |-> IF query[i] = "/" THEN "%2F" ELSE query[i]]

\* uri.normalize()
uriNormalize(parts) ==
  [parts EXCEPT !.path = IF @ # <<>> /\ @[1] = "/" THEN normalizePath(@) ELSE @,
                !.query = normalizeQuery(@)]

\* baseUrl: resourceListing.basePath, made absolute with the source URL
\* (whose query is dropped) when it is relative
baseUrlOf(source, rl) ==
  LET baseUrl == uriParts(OrElseStr(GetStr(rl, "basePath"), <<>>))
  IN IF uriIsRelative(baseUrl)
     THEN uriAbsoluteTo(baseUrl,
                        [uriParts(OrElseStr(source, <<>>)) EXCEPT !.query = <<>>])
     ELSE baseUrl

\* baseUrl with the file name taken away whatever the swaggerVersion is
baseForAnyVersion(swaggerVersion, baseUrl) ==
  IF uriSuffix(baseUrl) = "json" THEN uriNoFilename(baseUrl) ELSE baseUrl

\* baseUrl after the check for version 1.0: the file name is taken away
baseFor(swaggerVersion, baseUrl) ==
  IF swaggerVersion = "1.0" /\ uriSuffix(baseUrl) = "json"
  THEN uriNoFilename(baseUrl)
  ELSE baseUrl

\* isListed that looks at the path only
isListedByPath(api) == isValueStr(GetStr(api, "path"))

\* the entry is not skipped: it has a path and no operations
isListed(api) == isValueStr(GetStr(api, "path")) /\ ~isValueAt(api, "operations")

\* the URL of one entry
resourceUrlOf(baseUrl, path) ==
  LET resourceUrl == uriParts(replaceFirst(path, "{format}", "json"))
  IN uriHref(uriNormalize(
       IF uriIsRelative(resourceUrl)
       THEN uriParts(uriHref(baseUrl) \o uriHref(resourceUrl))
       ELSE resourceUrl))

listApiDeclarations(source, rl) ==
  LET baseUrl == baseFor(Get(rl, "swaggerVersion"), baseUrlOf(source, rl))
  IN [path \in {rl.apis[i].path : i \in {j \in DOMAIN rl.apis : isListed(rl.apis[j])}}
        |-> resourceUrlOf(baseUrl, path)]

-----------------------------------------------------------------------------
(* The inputs of the model *)

\* bounds
MaxApis == 3

PathA == <<"/", "a">>
PathB == <<"/", "b">>
PathC == <<"/", "c">>
PathRoot == <<"/">>

\* a plain operation: nothing but a method and a nickname
plainOperation(method) == [method |-> method, nickname |-> "op"]

\* an API declaration with one api entry at path holding the operations
declarationAt(path, operations) ==
  [resourcePath |-> path, apis |-> << [path |-> path, operations |-> operations] >>]

\* all sequences over S of length 1..n
SeqsUpTo(S, n) == UNION {[1..k -> S] : k \in 1..n}

\* all maps from a subset of keys to values of V
MapsOver(keys, V) == UNION {[K -> V] : K \in SUBSET keys}

\* entries of resourceListing.apis: a reference, an entry with inline
\* operations, an entry whose operations list is present but empty
ListingEntries ==
  UNION {{[path |-> p, description |-> "d"],
          [path |-> p, operations |-> <<plainOperation("GET")>>],
          [path |-> p, operations |-> <<>>]} : p \in {PathA, PathB}}

ListingDeclarations ==
  MapsOver({PathA, PathB},
           {declarationAt(PathA, <<plainOperation("POST")>>),
            declarationAt(PathB, <<plainOperation("PUT")>>), NullObj})

NoCall == [threw |-> NoError, document |-> EmptyObj]

\* no call of convert made yet
NoHistory == [calls |-> 0, earlier |-> EmptyObj, latest |-> EmptyObj]

Idle ==
  /\ heap = EmptyObj /\ input0 = EmptyObj /\ work = EmptyObj
  /\ history = NoHistory /\ sourceUrl = UndefStr
  /\ requests = <<>> /\ callback = <<>>

InitListing ==
  /\ resourceListing \in {[apis |-> apis] : apis \in SeqsUpTo(ListingEntries, MaxApis)}
  /\ apiDeclarations \in ListingDeclarations
  /\ options = EmptyObj
  /\ result = NoCall
  /\ pc = "ready"
  /\ Idle

\* API declarations that differ in basePath

MaxFragments == 3

FragmentPaths == <<PathA, PathB, PathC, <<"/", "k">>, <<"/", "n">>>>

FragmentKeys == {FragmentPaths[i] : i \in 1..MaxFragments}

RootBasePath == <<"http:", "//h", "/", "a">>

\* basePath of a declaration: missing, '', two absolute URLs, a path, and a
\* relative path ('./b') that resolves to that path
BasePaths ==
  {UndefStr, <<>>, <<"http:", "//h", "/", "a">>, <<"http:", "//h", "/", "b">>,
   <<"/", "b">>, <<".", "/", "b">>}

fragmentAt(path, basePath) ==
  (IF basePath = UndefStr THEN EmptyObj ELSE "basePath" :> basePath)
  @@ declarationAt(path, <<plainOperation("GET")>>)

\* the listing that references the keys, in sorted order
listingOf(keys) ==
  [apis |-> [i \in DOMAIN SortSet(keys) |-> [path |-> SortSet(keys)[i]]]]

InitBase ==
  /\ \E keys \in SUBSET FragmentKeys, basePaths \in [FragmentKeys -> BasePaths],
        root \in {UndefStr, RootBasePath}, referenced \in SUBSET {PathA, PathB} :
        /\ keys # {}
        /\ root = UndefStr => \A k \in keys : ~isRelativeBasePath(basePaths[k])
        /\ \A k \in FragmentKeys \ keys : basePaths[k] = UndefStr
        /\ apiDeclarations = [k \in keys |-> fragmentAt(k, basePaths[k])]
        /\ resourceListing = OptStr("basePath", root) @@ listingOf(referenced)
  /\ options = EmptyObj
  /\ result = NoCall
  /\ pc = "ready"
  /\ Idle

\* One API declaration whose operation varies

ModelDog == <<"Dog">>

AuthOAuth == <<"oauth2">>
AuthKey == <<"apiKey">>

\* resourceListing.authorizations: an OAuth2 authorization with two grant types
ListingAuthorizations ==
  AuthOAuth :>
    [type |-> "oauth2",
     scopes |-> <<[scope |-> "s"]>>,
     grantTypes |->
       (<<"implicit">> :> [loginEndpoint |-> [url |-> "login"]])
       @@ (<<"authorization_code">> :> [tokenEndpoint |-> [url |-> "token"]])]

\* a field of an object that may be missing: Undef stands for missing
Field(k, v) == IF v = Undef THEN EmptyObj ELSE k :> v
FieldStr(k, v) == IF v = UndefStr THEN EmptyObj ELSE k :> v

\* the types a parameter or an operation may name
TypeNames == {UndefStr, <<"string">>, ModelDog, <<"array">>}

\* the data type fields for a type name; an array has items that refer to
\* the model
typeFields(name) ==
  FieldStr("type", name)
  @@ (IF name = <<"array">> THEN "items" :> ("$ref" :> ModelDog) ELSE EmptyObj)

OperationParameters ==
  {[paramType |-> paramType, name |-> "p"] @@ typeFields(name) @@ Field("allowMultiple", multi) :
     paramType \in {"query", "body", "path"}, name \in TypeNames, multi \in {Undef, "true"}}

\* the field authorizations of an operation: missing, empty, or naming one
\* authorization
OperationAuthorizations ==
  {EmptyObj, "authorizations" :> EmptyObj, "authorizations" :> (AuthKey :> <<>>),
   "authorizations" :> (AuthOAuth :> <<[scope |-> "s"]>>)}

\* the field responseMessages of an operation: missing, empty, or one message
OperationResponseMessages ==
  {EmptyObj, "responseMessages" :> <<>>,
   "responseMessages" :> <<[code |-> "#200", message |-> "ok"]>>,
   "responseMessages" :> <<[code |-> "#404", responseModel |-> ModelDog]>>}

Operations ==
  {[method |-> "GET", nickname |-> "op"]
     @@ auth
     @@ FieldStr("type", type)
     @@ Field("defaultValue", defaultValue)
     @@ messages
     @@ (IF hasParameter THEN "parameters" :> <<parameter>> ELSE EmptyObj) :
     auth \in OperationAuthorizations,
     type \in {UndefStr, <<"string">>, ModelDog, <<"void">>},
     defaultValue \in {Undef, "5"},
     messages \in OperationResponseMessages,
     hasParameter \in BOOLEAN,
     parameter \in OperationParameters}

InitOps ==
  /\ \E operation \in Operations,
        fragmentAuth \in {EmptyObj, "authorizations" :> (AuthOAuth :> <<[scope |-> "s"]>>)},
        listingAuth \in {EmptyObj, "authorizations" :> ListingAuthorizations},
        models \in {EmptyObj, "models" :> (ModelDog :> [id |-> "Dog"])} :
        /\ apiDeclarations =
             PathA :> (fragmentAuth @@ models
                       @@ declarationAt(PathA, <<operation, plainOperation("POST")>>))
        /\ resourceListing = listingAuth @@ listingOf({PathA})
  /\ options = EmptyObj
  /\ result = NoCall
  /\ pc = "ready"
  /\ Idle

\* Two API declarations whose models vary

ModelIds == {<<"Animal">>, <<"Cat">>, ModelDog}

\* the field subTypes of a model: missing, one child, a child named twice
ModelSubTypes ==
  {EmptyObj, "subTypes" :> <<ModelDog>>, "subTypes" :> << <<"Cat">> >>,
   "subTypes" :> <<ModelDog, ModelDog>>}

\* the field properties of a model: missing, a string and a model, a list
\* of models
ModelProperties ==
  {EmptyObj,
   "properties" :> ((<<"n">> :> [type |-> <<"string">>, required |-> "true"])
                    @@ (<<"k">> :> [type |-> <<"Cat">>])),
   "properties" :> (<<"k">> :> [type |-> <<"List", "[", "Dog", "]">>])}

Models == {subTypes @@ properties : subTypes \in ModelSubTypes, properties \in ModelProperties}

\* the models of the second declaration: none, a Dog of its own, or a Cat
\* with the child Dog
SecondModels ==
  {EmptyObj,
   "models" :> (ModelDog :> [description |-> "second"]),
   "models" :> ((ModelDog :> [description |-> "second"])
                @@ (<<"Cat">> :> [subTypes |-> <<ModelDog>>]))}

\* an operation that names models in its type, a body parameter and a
\* response message
modelOperation(type) ==
  [method |-> "GET", nickname |-> "op", type |-> type,
   parameters |-> <<[paramType |-> "body", type |-> <<"array">>,
                     items |-> ("$ref" :> <<"Cat">>)]>>,
   responseMessages |-> <<[code |-> "#404", responseModel |-> <<"Animal">>]>>]

InitDefs ==
  /\ \E models \in MapsOver(ModelIds, Models), second \in SecondModels,
        type \in {ModelDog, <<"Map", "[", "String", ",", "Animal", "]">>} :
        apiDeclarations =
          (PathA :> ((IF models = EmptyObj THEN EmptyObj ELSE "models" :> models)
                     @@ declarationAt(PathA, <<modelOperation(type)>>)))
          @@ (PathB :> (second @@ declarationAt(PathB, <<plainOperation("POST")>>)))
  /\ resourceListing = listingOf({PathA, PathB})
  /\ options = EmptyObj
  /\ result = NoCall
  /\ pc = "ready"
  /\ Idle

\* Listings whose entries differ in the tag they yield

TagPaths == {PathRoot, PathA, PathB}

\* the sequences of two or more different paths
TagListings ==
  {s \in UNION {[1..n -> TagPaths] : n \in 2..Cardinality(TagPaths)} :
     \A i, j \in DOMAIN s : i # j => s[i] # s[j]}

\* resourcePath of the declaration at path: missing, the path itself, or one
\* and the same for all declarations
resourcePathFor(path, mode) ==
  IF mode = "own" THEN "resourcePath" :> path
  ELSE IF mode = "same" THEN "resourcePath" :> PathA
  ELSE EmptyObj

taggedDeclaration(path, mode, ownTags) ==
  resourcePathFor(path, mode)
  @@ [apis |-> << [path |-> path,
                   operations |-> <<ownTags @@ plainOperation("GET")>>] >>]

InitTags ==
  /\ \E paths \in TagListings, mode \in {"none", "own", "same"},
        ownTags \in {EmptyObj, "tags" :> << <<"b">> >>} :
        /\ resourceListing =
             [apis |-> [i \in DOMAIN paths |-> [path |-> paths[i], description |-> "d"]]]
        /\ apiDeclarations =
             [p \in Range(paths) |-> taggedDeclaration(p, mode, ownTags)]
  /\ options \in {EmptyObj, [buildTagsFromPaths |-> JsTrue]}
  /\ result = NoCall
  /\ pc = "ready"
  /\ Idle

\* One API declaration with one operation whose one parameter varies

ParamTypes == {"query", "path", "form", "body"}

\* the data type of the parameter: none, two primitives, an array with
\* items, an array without, and a list written in the 1.1 way
ParameterTypes ==
  {EmptyObj, [type |-> <<"string">>], [type |-> <<"integer">>],
   [type |-> <<"array">>, items |-> [type |-> <<"integer">>]],
   [type |-> <<"array">>], [type |-> <<"List", "[", "integer", "]">>]}

AllowMultiples == {Undef, JsTrue, JsFalse, "true", "TRUE", "false", "", "maybe"}

Requireds == {Undef, JsTrue, JsFalse, "false", "", "maybe"}

CollectionFormats == {Undef, "", "csv", "multi"}

\* the operation that has the parameters and nothing else
parameterOperation(parameters) ==
  [method |-> "GET", nickname |-> "op", parameters |-> parameters]

\* the API declarations that hold the operation at '/a'
declarationsOf(operation) == PathA :> declarationAt(PathA, <<operation>>)

InitParams ==
  /\ \E paramType \in ParamTypes, type \in ParameterTypes,
        allowMultiple \in AllowMultiples, required \in Requireds :
        apiDeclarations =
          declarationsOf(parameterOperation(
            << [paramType |-> paramType, name |-> "p"] @@ type
               @@ Field("allowMultiple", allowMultiple)
               @@ Field("required", required) >>))
  /\ resourceListing = listingOf({PathA})
  /\ options \in {Field("collectionFormat", format) : format \in CollectionFormats}
  /\ result = NoCall
  /\ pc = "ready"
  /\ Idle

\* One API declaration in which one field of one descriptor varies

\* the descriptors of the declaration: a query parameter, its items, a body
\* parameter, the operation, a model and a property of the model
Places == {"query", "items", "body", "operation", "model", "property"}

\* the fields whose values are converted from strings
LiteralFields ==
  {"required", "uniqueItems", "minimum", "maximum", "deprecated", "allowMultiple",
   "default", "defaultValue"}

\* strings that are literals, strings that are none, the empty string, and
\* a boolean
LiteralValues == {"", "maybe", "{", "true", "TRUE", "5", JsTrue}

PropertyN == <<"n">>

\* the declaration made of one descriptor per place
declarationWith(d) ==
  PathA :>
    [resourcePath |-> PathA,
     models |-> (ModelDog :> (d.model @@ [properties |-> (PropertyN :> d.property)])),
     apis |-> << [path |-> PathA,
                  operations |->
                    << d.operation
                       @@ [method |-> "GET", nickname |-> "op",
                           parameters |->
                             << d.query @@ [paramType |-> "query", name |-> "p",
                                            items |-> d.items],
                                d.body @@ [paramType |-> "body", name |-> "b"] >>] >>] >>]

InitLiterals ==
  /\ \E place \in Places, f \in LiteralFields, value \in LiteralValues,
        type \in {UndefStr, <<"integer">>, <<"string">>} :
        apiDeclarations =
          declarationWith([p \in Places |->
                             IF p = place THEN (f :> value) @@ FieldStr("type", type)
                             ELSE EmptyObj])
  /\ resourceListing = listingOf({PathA})
  /\ options = EmptyObj
  /\ result = NoCall
  /\ pc = "ready"
  /\ Idle

\* One API declaration with a descriptor that has a default, a defaultValue,
\* or both

\* values of default and defaultValue: missing, strings (empty, literals,
\* a word), booleans and numbers
DefaultValues == {Undef, "", "0", "5", "false", "x", JsFalse, JsTrue, "#0", "#5"}

InitDefaults ==
  /\ \E place \in Places, default \in DefaultValues, defaultValue \in DefaultValues,
        type \in {UndefStr, <<"integer">>, <<"string">>} :
        apiDeclarations =
          declarationWith([p \in Places |->
                             IF p = place
                             THEN Field("default", default)
                                  @@ Field("defaultValue", defaultValue)
                                  @@ FieldStr("type", type)
                             ELSE EmptyObj])
  /\ resourceListing = listingOf({PathA})
  /\ options = EmptyObj
  /\ result = NoCall
  /\ pc = "ready"
  /\ Idle

\* One API declaration whose models may be named like the types of typeMap

ModelString == <<"string">>
ModelCapital == <<"String">>

\* the descriptors that name a type: a query parameter (no references, and
\* here without items), a body parameter, the operation and a property
TypedPlaces == {"query", "body", "operation", "property"}

\* type names: names of typeMap in both letter cases, names of models, an
\* unknown name and a list
TypeNamesUsed ==
  {ModelString, ModelCapital, <<"integer">>, ModelDog, <<"Cat">>, <<"Animal">>,
   <<"List", "[", "String", "]">>}

InitTypes ==
  /\ \E place \in TypedPlaces, name \in TypeNamesUsed,
        others \in SUBSET {ModelString, ModelCapital, <<"Cat">>} :
        apiDeclarations =
          [declarationWith([p \in Places |->
                              IF p = place THEN "type" :> name ELSE EmptyObj])
             EXCEPT ![PathA].models = [id \in others |-> [id |-> id]] @@ @,
                    ![PathA].apis[1].operations[1].parameters[1] =
                       [k \in DOMAIN @ \ {"items"} |-> @[k]]]
  /\ resourceListing = listingOf({PathA})
  /\ options = EmptyObj
  /\ result = NoCall
  /\ pc = "ready"
  /\ Idle

\* One API declaration whose operation has response messages and a type

\* a response message: the code as a number or a string, with or without a
\* message and a responseModel
ResponseMessages ==
  {("code" :> code) @@ Field("message", message) @@ FieldStr("responseModel", model) :
     code \in {"#200", "200", "#404"}, message \in {Undef, "", "ok"},
     model \in {UndefStr, ModelDog, <<"Cat">>}}

InitResponses ==
  /\ \E type \in {UndefStr, <<"string">>, ModelDog, <<"void">>},
        messages \in {<<>>} \cup SeqsUpTo(ResponseMessages, 2) :
        apiDeclarations =
          PathA :>
            ([models |-> (ModelDog :> [id |-> "Dog"])]
             @@ declarationAt(PathA,
                  <<FieldStr("type", type) @@ [responseMessages |-> messages]
                    @@ plainOperation("GET")>>))
  /\ resourceListing = listingOf({PathA})
  /\ options = EmptyObj
  /\ result = NoCall
  /\ pc = "ready"
  /\ Idle

\* A resource listing whose authorizations vary, and one operation that
\* asks for some of them

AuthBasic == <<"basic">>

GrantImplicit == <<"implicit">> :> [loginEndpoint |-> [url |-> "login"]]
GrantCode == <<"authorization_code">> :> [tokenEndpoint |-> [url |-> "token"]]
GrantPassword == <<"password">> :> EmptyObj

\* an authorization of the listing: an API key without grant types, and
\* OAuth2 with no, one or two grant types, known or not
DeclaredAuthorizations ==
  {[type |-> "apiKey", passAs |-> "header", keyname |-> "k"]}
  \cup {[type |-> "oauth2", scopes |-> <<[scope |-> "s"]>>, grantTypes |-> grantTypes] :
          grantTypes \in {EmptyObj, GrantImplicit, GrantCode, GrantPassword,
                          GrantImplicit @@ GrantCode, GrantImplicit @@ GrantPassword}}

\* the scopes an operation asks of an authorization
AskedScopes == {<<>>, <<[scope |-> "s"]>>, <<[scope |-> "s"], [scope |-> "t"]>>}

InitSecurity ==
  /\ \E declared \in MapsOver({AuthOAuth, AuthKey}, DeclaredAuthorizations),
        asked \in MapsOver({AuthOAuth, AuthKey, AuthBasic}, AskedScopes) :
        /\ resourceListing = OptFull("authorizations", declared) @@ listingOf({PathA})
        /\ apiDeclarations =
             PathA :> declarationAt(PathA,
                        <<OptFull("authorizations", asked) @@ plainOperation("GET")>>)
  /\ options = EmptyObj
  /\ result = NoCall
  /\ pc = "ready"
  /\ Idle

\* One API declaration whose collections may be missing, empty or filled

\* fields that hold a collection: missing, empty, or with something in it
Collection(k, filled) == {EmptyObj, k :> <<>>, k :> filled}

\* the apis of the declaration at path: none, an entry without operations,
\* an entry with the operation
DeclarationApis(path, operation) ==
  {<<>>, <<[path |-> path, operations |-> <<>>]>>,
   <<[path |-> path, operations |-> <<operation>>]>>}

InitEmpty ==
  /\ \E path \in {PathRoot, PathA},
        listingAuth \in Collection("authorizations", ListingAuthorizations),
        models \in Collection("models", ModelDog :> [id |-> "Dog"]),
        auth \in Collection("authorizations", AuthKey :> <<>>),
        parameters \in Collection("parameters", <<[paramType |-> "query", name |-> "p"]>>),
        tags \in Collection("tags", << <<"b">> >>) \cup {"tags" :> << <<>> >>},
        ownAuth \in Collection("authorizations", AuthOAuth :> <<[scope |-> "s"]>>) :
        /\ resourceListing = listingAuth @@ listingOf({path})
        /\ \E apis \in DeclarationApis(path, parameters @@ tags @@ ownAuth
                                             @@ plainOperation("GET")) :
              apiDeclarations = path :> (auth @@ models @@ [apis |-> apis])
  /\ options = EmptyObj
  /\ result = NoCall
  /\ pc = "ready"
  /\ Idle

\* Two API declarations whose api entries may name the same path

\* api.path as written: with and without the leading slash, and another path
MergePaths == {PathA, <<"a">>, PathB}

MergeMethods == {"GET", "POST"}

\* the api entries of the resource whose operations are nicknamed nickname:
\* one or two entries, each with one operation
MergeApis(nickname) ==
  SeqsUpTo({[path |-> path,
             operations |-> <<[method |-> method, nickname |-> nickname]>>] :
              path \in MergePaths, method \in MergeMethods}, 2)

InitMerge ==
  /\ \E first \in MergeApis("first"), second \in MergeApis("second") :
        apiDeclarations = (PathA :> [apis |-> first]) @@ (PathB :> [apis |-> second])
  /\ resourceListing = listingOf({PathA, PathB})
  /\ options = EmptyObj
  /\ result = NoCall
  /\ pc = "ready"
  /\ Idle

\* Calls of convert one after another

MaxCalls == 3

ModelInteger == <<"integer">>

\* the models of a call: none, a model named like a primitive type, a Dog
CallModels ==
  {EmptyObj, "models" :> (ModelInteger :> [id |-> "integer"]),
   "models" :> (ModelDog :> [id |-> "Dog"])}

\* the operation of a call: its type, its authorizations and, to make the
\* call fail, a deprecated that is no literal
CallOperations ==
  {[method |-> "GET", nickname |-> "op", type |-> type] @@ auth @@ deprecated :
     type \in {ModelInteger, ModelDog},
     auth \in {EmptyObj, "authorizations" :> (AuthOAuth :> <<[scope |-> "s"]>>)},
     deprecated \in {EmptyObj, "deprecated" :> "maybe"}}

\* what convert may be called with: [resourceListing, apiDeclarations, options]
CallInputs ==
  {[resourceListing |-> listingAuth @@ listingOf({PathA}),
    apiDeclarations |-> key :> (models @@ declarationAt(PathA, <<operation>>)),
    options |-> opts] :
     listingAuth \in {EmptyObj, "authorizations" :> ListingAuthorizations},
     key \in {PathA, PathB},
     models \in CallModels,
     operation \in CallOperations,
     opts \in {EmptyObj, [buildTagsFromPaths |-> JsTrue]}}

InitCalls ==
  /\ resourceListing = EmptyObj
  /\ apiDeclarations = EmptyObj
  /\ options = EmptyObj
  /\ result = NoCall
  /\ pc = "ready"
  /\ Idle

\* Listings handed to listApiDeclarations

MaxEntries == 2

SourceUrls ==
  {<<"http:", "//h", "/", "a", ".", "json">>,
   <<"http:", "//h", "/", "c", "/", "a", ".", "json", "?", "k">>,
   <<"http:", "//h", "/", "a">>,
   <<"http:", "//h", "/", "c", "/", "a", ".", "{format}">>}

\* basePath of the listing: missing, '', two absolute URLs (one with a
\* query), an absolute path and a relative path
ListingBasePaths ==
  {UndefStr, <<>>, <<"http:", "//g", "/", "b", ".", "json">>,
   <<"http:", "//g", "?", "k">>, <<"/", "b">>, <<"b", ".", "json">>}

\* the entries: references with a relative or an absolute path, with and
\* without '{format}', an entry without a path or with the path '', and
\* entries with operations, listed or empty
LocatorEntries ==
  {[path |-> path] :
     path \in {<<"/", "b">>, <<"/", "b", ".", "{format}">>,
               <<"http:", "//g", "/", "c">>,
               <<"http:", "//g", "/", "c", ".", "{format}">>, <<>>}}
  \cup {[description |-> "d"],
        [path |-> PathA, operations |-> <<plainOperation("GET")>>],
        [path |-> PathA, operations |-> <<>>]}

InitList ==
  /\ sourceUrl \in SourceUrls
  /\ \E basePath \in ListingBasePaths, version \in {Undef, "1.0", "1.2"} :
        resourceListing \in
          {FieldStr("basePath", basePath) @@ Field("swaggerVersion", version)
             @@ [apis |-> apis] : apis \in SeqsUpTo(LocatorEntries, MaxEntries)}
  /\ input0 = resourceListing
  /\ apiDeclarations = EmptyObj
  /\ options = EmptyObj
  /\ result = NoCall
  /\ pc = "ready"
  /\ heap = EmptyObj /\ work = EmptyObj /\ history = NoHistory
  /\ requests = <<>> /\ callback = <<>>

\* Listings handed to listApiDeclarations and then, with the declarations
\* loaded for the keys it returned, to convert

\* the entries: references, an entry without a path, an entry with
\* operations, and an entry whose operations list is present but empty
LoadEntries ==
  {[path |-> PathA], [path |-> PathB], [description |-> "d"],
   [path |-> PathB, operations |-> <<plainOperation("GET")>>],
   [path |-> PathA, operations |-> <<>>]}

InitLoad ==
  /\ sourceUrl \in SourceUrls
  /\ resourceListing \in {[apis |-> apis] : apis \in SeqsUpTo(LoadEntries, MaxEntries)}
  /\ input0 = resourceListing
  /\ apiDeclarations = EmptyObj
  /\ options = EmptyObj
  /\ result = NoCall
  /\ pc = "ready"
  /\ heap = EmptyObj /\ work = EmptyObj /\ history = NoHistory
  /\ requests = <<>> /\ callback = <<>>

-----------------------------------------------------------------------------
(* SwaggerConverter.convert(resourceListing, apiDeclarations, options) *)

Convert ==
  /\ pc = "ready"
  /\ result' = convert(resourceListing, apiDeclarations, options)
  /\ pc' = "done"
  /\ UNCHANGED <<requests, callback, history, sourceUrl, resourceListing, apiDeclarations, options, heap, input0, work>>

Next == Convert

SpecListing == InitListing /\ [][Next]_vars

SpecBase == InitBase /\ [][Next]_vars

SpecOps == InitOps /\ [][Next]_vars

SpecDefs == InitDefs /\ [][Next]_vars

SpecTags == InitTags /\ [][Next]_vars

SpecParams == InitParams /\ [][Next]_vars

SpecLiterals == InitLiterals /\ [][Next]_vars

SpecEmpty == InitEmpty /\ [][Next]_vars

SpecMerge == InitMerge /\ [][Next]_vars

SpecDefaults == InitDefaults /\ [][Next]_vars

SpecTypes == InitTypes /\ [][Next]_vars

SpecResponses == InitResponses /\ [][Next]_vars

\* one more call of convert, with any of the inputs, after the calls made so
\* far: var converter = new Converter(); converter.options = options || {};
\* return converter.convert(resourceListing, apiDeclarations)
Call ==
  /\ pc \in {"ready", "done"}
  /\ history.calls < MaxCalls
  /\ \E input \in CallInputs :
        /\ resourceListing' = input.resourceListing
        /\ apiDeclarations' = input.apiDeclarations
        /\ options' = input.options
        /\ result' = convertAfter(history.latest, input.resourceListing,
                                  input.apiDeclarations, input.options)
        /\ history' = [calls |-> history.calls + 1,
                       earlier |-> history.latest,
                       latest |-> converterLeft(history.latest, input.resourceListing,
                                                input.apiDeclarations, input.options)]
  /\ pc' = "done"
  /\ UNCHANGED <<requests, callback, heap, input0, work, sourceUrl>>

\* SwaggerConverter.convert seen together with the converter it made:
\* converter.convert(resourceListing, apiDeclarations) returns or throws and
\* leaves this.customTypes and this.securityNamesMap in the converter
ConverterConvert ==
  /\ pc = "ready"
  /\ result' = convertAfter(history.latest, resourceListing, apiDeclarations, options)
  /\ history' = [calls |-> history.calls + 1,
                 earlier |-> history.latest,
                 latest |-> converterLeft(history.latest, resourceListing,
                                          apiDeclarations, options)]
  /\ pc' = "done"
  /\ UNCHANGED <<requests, callback, sourceUrl, resourceListing, apiDeclarations, options, heap, input0, work>>

NextSecurity == ConverterConvert

SpecSecurity == InitSecurity /\ [][NextSecurity]_vars

\* SwaggerConverter.listApiDeclarations(sourceUrl, resourceListing): the map
\* is returned, nothing is assigned to the listing
ListApiDeclarations ==
  /\ pc = "ready"
  /\ result' = [threw |-> NoError,
                document |-> listApiDeclarations(sourceUrl, resourceListing)]
  /\ pc' = "done"
  /\ UNCHANGED <<requests, callback, history, sourceUrl, resourceListing, apiDeclarations, options,
                 heap, input0, work>>

\* the caller loads a declaration for every key listApiDeclarations returned
LoadDeclarations ==
  /\ pc = "done"
  /\ history = NoHistory /\ apiDeclarations = EmptyObj
  /\ \E method \in {"GET", "POST"} :
        apiDeclarations' = [key \in DOMAIN result.document |->
                              declarationAt(key, <<plainOperation(method)>>)]
  /\ pc' = "loaded"
  /\ UNCHANGED <<requests, callback, history, sourceUrl, resourceListing, options, result, heap, input0, work>>

\* and hands them to SwaggerConverter.convert together with the listing
ConvertLoaded ==
  /\ pc = "loaded"
  /\ result' = convert(resourceListing, apiDeclarations, options)
  /\ pc' = "converted"
  /\ UNCHANGED <<requests, callback, history, sourceUrl, resourceListing, apiDeclarations, options, heap, input0, work>>

NextList == ListApiDeclarations

NextLoad == ListApiDeclarations \/ LoadDeclarations \/ ConvertLoaded

SpecLoad == InitLoad /\ [][NextLoad]_vars

SpecList == InitList /\ [][NextList]_vars

NextCalls == Call

SpecCalls == InitCalls /\ [][NextCalls]_vars

-----------------------------------------------------------------------------
(* convertFromUrl, getResource, parseFullApi (src/unnamed/part_003): the   *)
(* converter that fetches the resource listing and its sub-resources       *)

\* bound: the entries of the resource listing that is fetched
MaxSubs == 3

Pending == "pending"

\* what a fetch of the root ends with: status 200 and a JSON body, status 200
\* and a body that is no JSON, another status without an error, an error
RootOutcomes == {"ok", "badjson", "status", "error"}

\* the same for a sub-resource; a JSON body may lack the field models, which
\* convert reads with Object.keys(apiDeclaration.models)
SubOutcomes == RootOutcomes \cup {"nomodels"}

\* root documents with 0..MaxSubs entries
FetchedListings ==
  {[apis |-> [i \in 1..n |-> [path |-> FragmentPaths[i]]]] : n \in 0..MaxSubs}

\* the variables of the conversion of values, which the callback-based
\* converters leave alone
conversion == <<history, apiDeclarations, options, result, heap, input0, work>>

InitUrl ==
  /\ sourceUrl \in SourceUrls
  /\ resourceListing \in FetchedListings
  /\ apiDeclarations = EmptyObj
  /\ options = EmptyObj
  /\ result = NoCall
  /\ pc = "ready"
  /\ heap = EmptyObj /\ input0 = EmptyObj /\ work = EmptyObj
  /\ history = NoHistory
  /\ requests = <<>> /\ callback = <<>>

\* convertFromUrl(baseUrl, cb): getResource(baseUrl, ...) starts the fetch
ConvertFromUrl ==
  /\ pc = "ready"
  /\ requests' = <<[url |-> 0, state |-> Pending]>>
  /\ pc' = "root"
  /\ UNCHANGED <<callback, sourceUrl, resourceListing, conversion>>

\* the callback of the root fetch: an error is handed to cb; a body that is
\* missing (status not 200) or no JSON makes JSON.parse throw, and the catch
\* hands that to cb; else parseFullApi starts the fetches of all entries at
\* once, and with no entry async.map calls back at once
RootResponse ==
  /\ pc = "root"
  /\ \E outcome \in RootOutcomes :
        LET answered == [requests EXCEPT ![1].state = outcome]
            apis == resourceListing.apis
        IN IF outcome # "ok"
           THEN /\ requests' = answered
                /\ callback' = Append(callback, "error")
                /\ pc' = "returned"
           ELSE IF apis = <<>>
           THEN /\ requests' = answered
                /\ callback' = Append(callback, "document")
                /\ pc' = "returned"
           ELSE /\ requests' = answered
                                 \o [i \in DOMAIN apis |-> [url |-> i, state |-> Pending]]
                /\ callback' = callback
                /\ pc' = "subs"
  /\ UNCHANGED <<sourceUrl, resourceListing, conversion>>

\* the callback of the fetch of entry i. The first error ends async.map,
\* whose callback logs it and returns; when the last fetch is answered
\* without any error the bodies are parsed and converted outside any try:
\* a body that is missing or no JSON, or a declaration without models, is an
\* uncaught exception; else cb(null, converted)
SubResponse(i) ==
  /\ pc \in {"subs", "logged"}
  /\ i + 1 \in DOMAIN requests
  /\ requests[i + 1].state = Pending
  /\ \E outcome \in SubOutcomes :
        LET answered == [requests EXCEPT ![i + 1].state = outcome]
            states == {answered[j].state : j \in 2..Len(answered)}
        IN /\ requests' = answered
           /\ IF pc = "logged" THEN pc' = pc /\ callback' = callback
              ELSE IF outcome = "error" THEN pc' = "logged" /\ callback' = callback
              ELSE IF Pending \in states THEN pc' = pc /\ callback' = callback
              ELSE IF states \cap {"status", "badjson", "nomodels"} # {}
              THEN pc' = "thrown" /\ callback' = callback
              ELSE pc' = "returned" /\ callback' = Append(callback, "document")
  /\ UNCHANGED <<sourceUrl, resourceListing, conversion>>

NextUrl == ConvertFromUrl \/ RootResponse \/ \E i \in 1..MaxSubs : SubResponse(i)

\* every fetch that was started is answered
SpecUrl == InitUrl /\ [][NextUrl]_vars /\ WF_vars(NextUrl)

-----------------------------------------------------------------------------
(* convert(sourceUri, callback), buildPathsAndModels, makePath              *)
(* (src/unnamed/part_002) and getFile (src/get-file.js): the converter that *)
(* reads the resource listing and its fragments from files                  *)

\* what getFile ends with: the parsed document, a file that is no JSON, an
\* error of fs.readFile
FileOutcomes == {"ok", "badjson", "error"}

\* root documents with 0..MaxSubs entries, and one whose entry has operations
FileListings ==
  FetchedListings
  \cup {[apis |-> <<[path |-> PathA, operations |-> <<plainOperation("GET")>>]>>]}

InitFile ==
  /\ sourceUrl \in SourceUrls
  /\ resourceListing \in FileListings
  /\ apiDeclarations = EmptyObj
  /\ options = EmptyObj
  /\ result = NoCall
  /\ pc = "ready"
  /\ heap = EmptyObj /\ input0 = EmptyObj /\ work = EmptyObj
  /\ history = NoHistory
  /\ requests = <<>> /\ callback = <<>>

\* convert(sourceUri, callback): getFile(sourceUri, ...) starts the read
ConvertFile ==
  /\ pc = "ready"
  /\ requests' = <<[url |-> 0, state |-> Pending]>>
  /\ pc' = "rootFile"
  /\ UNCHANGED <<callback, sourceUrl, resourceListing, conversion>>

\* the callback of the read of the root: buildInfo(source) reads
\* source.apiVersion before error is looked at, which throws when getFile
\* handed over an error and no source; buildPathsAndModels reads
\* source.apis[0].operations, which throws when there is no entry; with
\* operations in the first entry the paths are built from the root alone;
\* else makePath reads the first fragment
RootRead ==
  /\ pc = "rootFile"
  /\ \E outcome \in FileOutcomes :
        LET answered == [requests EXCEPT ![1].state = outcome]
            apis == resourceListing.apis
        IN IF outcome # "ok" \/ apis = <<>>
           THEN /\ requests' = answered
                /\ callback' = callback
                /\ pc' = "thrown"
           ELSE IF Has(apis[1], "operations")
           THEN /\ requests' = answered
                /\ callback' = Append(callback, "document")
                /\ pc' = "returned"
           ELSE /\ requests' = Append(answered, [url |-> 1, state |-> Pending])
                /\ callback' = callback
                /\ pc' = "fragments"
  /\ UNCHANGED <<sourceUrl, resourceListing, conversion>>

\* the callback of the read of the fragment at index: an error goes to the
\* callback; after the last fragment the callback gets the document; else
\* index++ and makePath reads the next fragment
FragmentRead ==
  /\ pc = "fragments"
  /\ requests[Len(requests)].state = Pending
  /\ \E outcome \in FileOutcomes :
        LET answered == [requests EXCEPT ![Len(requests)].state = outcome]
            index == Len(requests) - 1
        IN IF outcome # "ok"
           THEN /\ requests' = answered
                /\ callback' = Append(callback, "error")
                /\ pc' = "returned"
           ELSE IF index = Len(resourceListing.apis)
           THEN /\ requests' = answered
                /\ callback' = Append(callback, "document")
                /\ pc' = "returned"
           ELSE /\ requests' = Append(answered, [url |-> index + 1, state |-> Pending])
                /\ callback' = callback
                /\ pc' = pc
  /\ UNCHANGED <<sourceUrl, resourceListing, conversion>>

NextFile == ConvertFile \/ RootRead \/ FragmentRead

\* every read that was started is answered
SpecFile == InitFile /\ [][NextFile]_vars /\ WF_vars(NextFile)

-----------------------------------------------------------------------------
(* buildDefinitions and buildModel step by step on a heap of objects.

   Objects and arrays live at addresses; a field or an array element that is
   an object holds its address. An object is [fields |-> ...], an array is
   [items |-> ...]. The input (the models of one resource) lies at the
   addresses of input0, everything the code creates lies above FirstFresh. *)

HeapIds == <<"Animal", "Dog">>
HeapNames == <<"k", "n">>

\* Object.keys(collection).sort() for the keys of the heap model
sortedNames(S) == SelectSeq(HeapIds \o HeapNames, LAMBDA k : k \in S)

OldModelsAt == 1
FirstFresh == 100

modelAt(id) == IF id = "Animal" THEN 10 ELSE 20

\* the objects of one old model at base: the model, its required array,
\* its properties and its subTypes
oldModelCells(base, required, properties, subTypes) ==
  (base :> [fields |->
              (IF required # "none" THEN "required" :> base + 1 ELSE EmptyObj)
              @@ (IF properties # "none" THEN "properties" :> base + 2 ELSE EmptyObj)
              @@ (IF subTypes # "none" THEN "subTypes" :> base + 3 ELSE EmptyObj)])
  @@ (IF required = "none" THEN EmptyObj
      ELSE base + 1 :> [items |-> IF required = "empty" THEN <<>> ELSE <<"n">>])
  @@ (IF properties = "none" THEN EmptyObj
      ELSE IF properties = "n"
      THEN (base + 2 :> [fields |-> ("n" :> base + 4)])
           @@ (base + 4 :> [fields |-> ("required" :> "true")])
      ELSE (base + 2 :> [fields |-> ("n" :> base + 4) @@ ("k" :> base + 5)])
           @@ (base + 4 :> [fields |-> EmptyObj])
           @@ (base + 5 :> [fields |-> ("required" :> "true")]))
  @@ (IF subTypes = "none" THEN EmptyObj
      ELSE base + 3 :> [items |-> IF subTypes = "Dog" THEN <<"Dog">>
                                  ELSE <<"Dog", "Dog">>])

NoWork ==
  [models |-> 0, ids |-> <<>>, mi |-> 0, required |-> 0, properties |-> 0,
   names |-> <<>>, pidx |-> 0, pairs |-> <<>>, definitions |-> 0, next |-> FirstFresh]

InitHeap ==
  /\ \E ids \in (SUBSET Range(HeapIds)) \ {{}},
        required \in [Range(HeapIds) -> {"none", "empty", "n"}],
        properties \in [Range(HeapIds) -> {"none", "n", "kn"}],
        subTypes \in [Range(HeapIds) -> {"none", "Dog", "DogDog"}] :
        /\ \A id \in Range(HeapIds) \ ids :
              required[id] = "none" /\ properties[id] = "none" /\ subTypes[id] = "none"
        /\ heap = (OldModelsAt :> [fields |-> [id \in ids |-> modelAt(id)]])
                  @@ (IF "Animal" \in ids
                      THEN oldModelCells(modelAt("Animal"), required["Animal"],
                                         properties["Animal"], subTypes["Animal"])
                      ELSE EmptyObj)
                  @@ (IF "Dog" \in ids
                      THEN oldModelCells(modelAt("Dog"), required["Dog"],
                                         properties["Dog"], subTypes["Dog"])
                      ELSE EmptyObj)
  /\ input0 = heap
  /\ work = NoWork
  /\ pc = "start"
  /\ resourceListing = EmptyObj
  /\ apiDeclarations = EmptyObj
  /\ options = EmptyObj
  /\ result = NoCall
  /\ history = NoHistory
  /\ requests = <<>> /\ callback = <<>>
  /\ sourceUrl = UndefStr

\* a field of the object at address a
field(a, k) == heap[a].fields[k]
hasField(a, k) == k \in DOMAIN heap[a].fields

\* the old model the first loop is at
oldModel == field(OldModelsAt, work.ids[work.mi])

\* var models = {}
StartDefinitions ==
  /\ pc = "start"
  /\ heap' = (work.next :> [fields |-> EmptyObj]) @@ heap
  /\ work' = [work EXCEPT !.models = work.next, !.next = work.next + 1,
                          !.ids = sortedNames(DOMAIN heap[OldModelsAt].fields),
                          !.mi = 1]
  /\ pc' = "model"
  /\ UNCHANGED <<requests, callback, history, sourceUrl, resourceListing, apiDeclarations, options, result, input0>>

\* the array the variable required of buildModel holds while the properties
\* are walked, were it taken from the old model right away
requiredAtStartAliased(model, fresh) ==
  IF hasField(model, "required") THEN field(model, "required") ELSE fresh

\* the array the variable required of buildModel holds while the properties
\* are walked: a new one
requiredAtStart(model, fresh) == fresh

\* buildModel: var required = []; var properties = {};
StartModel ==
  /\ pc = "model"
  /\ work.mi <= Len(work.ids)
  /\ heap' = (work.next :> [items |-> <<>>])
             @@ (work.next + 1 :> [fields |-> EmptyObj]) @@ heap
  /\ work' = [work EXCEPT !.required = requiredAtStart(oldModel, work.next),
                          !.properties = work.next + 1,
                          !.next = work.next + 2,
                          !.names = IF hasField(oldModel, "properties")
                                    THEN sortedNames(DOMAIN heap[field(oldModel, "properties")].fields)
                                    ELSE <<>>,
                          !.pidx = 1]
  /\ pc' = "property"
  /\ UNCHANGED <<requests, callback, history, sourceUrl, resourceListing, apiDeclarations, options, result, input0>>

\* buildModel, one pass of the loop over oldModel.properties:
\* required.push(propertyName) when the property is required, and
\* properties[propertyName] = this.buildModel(oldProperty)
BuildProperty ==
  /\ pc = "property"
  /\ work.pidx <= Len(work.names)
  /\ LET name == work.names[work.pidx]
         oldProperty == field(field(oldModel, "properties"), name)
         isRequired == fixNonStringValue(Get(heap[oldProperty].fields, "required"), FALSE) = JsTrue
         pushed == IF isRequired
                   THEN [heap EXCEPT ![work.required].items = Append(@, name)]
                   ELSE heap
     IN heap' = (work.next :> [fields |-> EmptyObj])
                @@ [pushed EXCEPT ![work.properties].fields = (name :> work.next) @@ @]
  /\ work' = [work EXCEPT !.pidx = work.pidx + 1, !.next = work.next + 1]
  /\ pc' = "property"
  /\ UNCHANGED <<requests, callback, history, sourceUrl, resourceListing, apiDeclarations, options, result, input0>>

\* buildModel after the loop: required = oldModel.required when that is an
\* array; the model is made of the data type and of the required and
\* properties that are not empty; models[modelId] = the model
FinishModel ==
  /\ pc = "property"
  /\ work.pidx > Len(work.names)
  /\ LET required == IF hasField(oldModel, "required") THEN field(oldModel, "required")
                     ELSE work.required
         model == [fields |->
                     (IF heap[required].items # <<>> THEN "required" :> required ELSE EmptyObj)
                     @@ (IF heap[work.properties].fields # EmptyObj
                         THEN "properties" :> work.properties ELSE EmptyObj)]
     IN heap' = (work.next :> model)
                @@ [heap EXCEPT ![work.models].fields = (work.ids[work.mi] :> work.next) @@ @]
  /\ work' = [work EXCEPT !.mi = work.mi + 1, !.next = work.next + 1]
  /\ pc' = "model"
  /\ UNCHANGED <<requests, callback, history, sourceUrl, resourceListing, apiDeclarations, options, result, input0>>

\* the pairs <<parentId, childId>> of the second loop, in its order
RECURSIVE heapSubTypePairs(_)
heapSubTypePairs(parentIds) ==
  IF parentIds = <<>> THEN <<>>
  ELSE LET parent == field(OldModelsAt, Head(parentIds))
           subTypes == IF hasField(parent, "subTypes")
                       THEN heap[field(parent, "subTypes")].items ELSE <<>>
       IN [i \in DOMAIN subTypes |-> <<Head(parentIds), subTypes[i]>>]
          \o heapSubTypePairs(Tail(parentIds))

\* the first loop is over: the second loop starts
StartSubTypes ==
  /\ pc = "model"
  /\ work.mi > Len(work.ids)
  /\ work' = [work EXCEPT !.pairs = heapSubTypePairs(work.ids)]
  /\ pc' = "subtype"
  /\ UNCHANGED <<requests, callback, history, sourceUrl, resourceListing, apiDeclarations, options, result, input0, heap>>

\* var child = models[childId]; if (!isValue(child)) throw
MissingChild ==
  /\ pc = "subtype"
  /\ work.pairs # <<>>
  /\ ~hasField(work.models, Head(work.pairs)[2])
  /\ result' = Thrown(ErrSubTypes)
  /\ pc' = "done"
  /\ UNCHANGED <<requests, callback, history, sourceUrl, resourceListing, apiDeclarations, options, input0, heap, work>>

\* if (!isValue(child.allOf)) models[childId] = child = {allOf: [child]}
WrapChild ==
  /\ pc = "subtype"
  /\ work.pairs # <<>>
  /\ hasField(work.models, Head(work.pairs)[2])
  /\ ~hasField(field(work.models, Head(work.pairs)[2]), "allOf")
  /\ LET childId == Head(work.pairs)[2]
     IN heap' = (work.next :> [items |-> <<field(work.models, childId)>>])
                @@ (work.next + 1 :> [fields |-> ("allOf" :> work.next)])
                @@ [heap EXCEPT ![work.models].fields = (childId :> work.next + 1) @@ @]
  /\ work' = [work EXCEPT !.next = work.next + 2]
  /\ pc' = "subtype"
  /\ UNCHANGED <<requests, callback, history, sourceUrl, resourceListing, apiDeclarations, options, result, input0>>

\* child.allOf.push({$ref: '#/definitions/' + parentId})
PushParent ==
  /\ pc = "subtype"
  /\ work.pairs # <<>>
  /\ hasField(work.models, Head(work.pairs)[2])
  /\ hasField(field(work.models, Head(work.pairs)[2]), "allOf")
  /\ LET child == field(work.models, Head(work.pairs)[2])
     IN heap' = (work.next :> [fields |-> ("$ref" :> Head(work.pairs)[1])])
                @@ [heap EXCEPT ![field(child, "allOf")].items = Append(@, work.next)]
  /\ work' = [work EXCEPT !.pairs = Tail(work.pairs), !.next = work.next + 1]
  /\ pc' = "subtype"
  /\ UNCHANGED <<requests, callback, history, sourceUrl, resourceListing, apiDeclarations, options, result, input0>>

\* convert: extend(definitions, this.buildDefinitions(resource.models))
ExtendDefinitions ==
  /\ pc = "subtype"
  /\ work.pairs = <<>>
  /\ heap' = (work.next :> [fields |-> heap[work.models].fields]) @@ heap
  /\ work' = [work EXCEPT !.definitions = work.next, !.next = work.next + 1]
  /\ pc' = "done"
  /\ UNCHANGED <<requests, callback, history, sourceUrl, resourceListing, apiDeclarations, options, result, input0>>

NextHeap ==
  \/ StartDefinitions
  \/ StartModel
  \/ BuildProperty
  \/ FinishModel
  \/ StartSubTypes
  \/ MissingChild
  \/ WrapChild
  \/ PushParent
  \/ ExtendDefinitions

SpecHeap == InitHeap /\ [][NextHeap]_vars

-----------------------------------------------------------------------------
(* Properties of the inputs (SpecHeap) *)

-----------------------------------------------------------------------------
(* Properties of the resource listing (SpecListing) *)

listingApis == GetSeq(resourceListing, "apis")

\* an entry with inline, non-empty operations
isEmbeddedEntry(entry) == Has(entry, "operations") /\ entry.operations # <<>>

\* an entry with a path and no operations field
isReferenceEntry(entry) == isValueStr(GetStr(entry, "path")) /\ ~Has(entry, "operations")

returned == pc = "done" /\ result.threw = NoError
raised == pc = "done" /\ result.threw # NoError

\* C3: a resource listing that has at least one entry with inline operations
\* and at least one reference entry, in whatever order, makes convert raise
\* an error.
C3_MixedListingRaises ==
  (/\ pc = "done"
   /\ \E i \in DOMAIN listingApis : isEmbeddedEntry(listingApis[i])
   /\ \E i \in DOMAIN listingApis : isReferenceEntry(listingApis[i]))
  => result.threw # NoError

\* the listing is of the referenced variant: every entry has a path and none
\* has inline operations
referencedListing ==
  \A i \in DOMAIN listingApis :
     /\ isValueStr(GetStr(listingApis[i], "path"))
     /\ ~isEmbeddedEntry(listingApis[i])

\* the path of entry i is a key of apiDeclarations that maps to a declaration
declared(i) == isValueObjectAt(apiDeclarations, listingApis[i].path)

\* C4: in the referenced variant, a path that is no key of apiDeclarations
\* (or maps to null) makes convert raise the missing-declaration error; when
\* every path is present that error is not raised and the resources processed
\* are the mapped declarations in listing order.
C4_MissingReference ==
  (pc = "done" /\ referencedListing) =>
     IF \E i \in DOMAIN listingApis : ~declared(i)
     THEN result.threw = ErrMissing
     ELSE /\ result.threw # ErrMissing
          /\ getResources(resourceListing, apiDeclarations).resources
               = [i \in DOMAIN listingApis |-> apiDeclarations[listingApis[i].path]]
          /\ (result.threw = NoError =>
                DOMAIN GetObj(result.document, "paths")
                  = UNION {DOMAIN buildPaths(apiDeclarations[listingApis[i].path], <<>>,
                                    [options |-> options, customTypes |-> <<>>,
                                     securityNamesMap |-> EmptyObj])
                           : i \in DOMAIN listingApis})

\* reached: a referenced listing of two entries, the first declared, the
\* second not, and the missing-declaration error raised
C4_Witness ==
  /\ pc = "done" /\ referencedListing
  /\ Len(listingApis) >= 2 /\ declared(1) /\ ~declared(2)
  /\ result.threw = ErrMissing

\* reached: a referenced listing of two declared entries converted
C4_WitnessPresent ==
  /\ returned /\ referencedListing
  /\ Len(listingApis) >= 2 /\ \A i \in DOMAIN listingApis : declared(i)

-----------------------------------------------------------------------------
(* Properties of the base paths (SpecBase) *)

\* the path component of the root base path, against which a relative
\* basePath is resolved
rootPathOf(rl) == GetStr(buildPathComponents(GetStr(rl, "basePath")), "basePath")

\* two declarations both have a basePath and the two, once resolved, differ
conflictingBasePaths ==
  \E k1, k2 \in DOMAIN apiDeclarations :
     /\ isValueStr(GetStr(apiDeclarations[k1], "basePath"))
     /\ isValueStr(GetStr(apiDeclarations[k2], "basePath"))
     /\ resolvedBasePath(apiDeclarations[k1], rootPathOf(resourceListing))
          # resolvedBasePath(apiDeclarations[k2], rootPathOf(resourceListing))

\* the steps of convert that come before aggregatePathComponents all succeed
reachesAggregate ==
  /\ getResources(resourceListing, apiDeclarations).err = NoError
  /\ \A k \in DOMAIN apiDeclarations : apiDeclarations[k] # NullObj

-----------------------------------------------------------------------------
(* Properties of the operations (SpecOps) *)

\* the operations of all API declarations handed to convert, as triples
\* <<pathString, method, oldOperation>> with the key of their declaration
inputOperations ==
  UNION {{<<k, operationsOf(apiDeclarations[k])[i]>> :
            i \in DOMAIN operationsOf(apiDeclarations[k])} :
         k \in DOMAIN apiDeclarations}

\* the operation of the returned document made from an input operation
outputOperation(o) == result.document.paths[o[2][1]][o[2][2]]

\* the model ids of all API declarations
modelIds == UNION {DOMAIN GetObj(apiDeclarations[k], "models") : k \in DOMAIN apiDeclarations}

\* the parameter is not a body parameter and its type, dataType or $ref, or
\* the items of its array, name a model
isComplexNonBody(oldParameter) ==
  /\ Get(oldParameter, "paramType") # "body"
  /\ \/ oldTypeNameOf(oldParameter) \in modelIds
     \/ /\ oldTypeNameOf(oldParameter) = <<"array">>
        /\ Has(oldParameter, "items")
        /\ oldTypeNameOf(itemsObject(oldParameter.items)) \in modelIds

\* C6: a parameter that is not a body parameter and whose data type resolves
\* to a model (its type names a model id, or it is an array whose items name
\* one) makes convert raise an error instead of emitting the parameter.
C6_ComplexNonBodyParameterRaises ==
  (/\ pc = "done"
   /\ \E o \in inputOperations :
        \E i \in DOMAIN GetSeq(o[2][3], "parameters") :
           isComplexNonBody(o[2][3].parameters[i]))
  => result.threw # NoError

\* the operation has no authorizations of its own: the field is missing or empty
noOwnAuthorizations(oldOperation) == isEmpty(GetObj(oldOperation, "authorizations"))

\* the names the authorizations of the resource listing are known by in the
\* returned document
namesMap == securityNamesMapOf(GetObj(resourceListing, "authorizations"))

\* the security requirements of oldAuthorizations: for every name in sorted
\* order and every name it is known by, that name with the scopes asked for
requirementsOf(oldAuthorizations) ==
  flatten([i \in DOMAIN SortedKeys(oldAuthorizations) |->
     LET oldName == SortedKeys(oldAuthorizations)[i]
         known == IF oldName \in DOMAIN namesMap THEN namesMap[oldName] ELSE <<oldName>>
     IN [n \in DOMAIN known |->
           known[n] :> [j \in DOMAIN oldAuthorizations[oldName] |->
                          oldAuthorizations[oldName][j].scope]]])

ListedResponseFields ==
  {"type", "dataType", "responseClass", "$ref", "items", "format", "enum",
   "default", "minimum", "maximum", "uniqueItems"}

\* the fields buildDataType reads from an operation
ResponseFields == ListedResponseFields \cup {"defaultValue"}

NoResponse == "200" :> [description |-> "No response was specified"]

\* every operation of the returned document has a response '200' with a
\* description; an operation without response messages and without any of
\* the fields has exactly the default response
defaultResponseFor(fields) ==
  returned =>
    \A o \in inputOperations :
       /\ Has(outputOperation(o), "responses")
       /\ Has(outputOperation(o).responses, "200")
       /\ Has(outputOperation(o).responses["200"], "description")
       /\ (/\ isEmpty(GetSeq(o[2][3], "responseMessages"))
           /\ DOMAIN o[2][3] \cap fields = {})
          => outputOperation(o).responses = NoResponse

\* C10 as claimed: the fields that must be missing are type, dataType,
\* responseClass, $ref, items, format, enum, default, minimum, maximum and
\* uniqueItems.
C10_DefaultResponseListed == defaultResponseFor(ListedResponseFields)

\* C10: every operation of the returned document has a response '200' with a
\* description; an operation with no response messages and none of the fields
\* type, dataType, responseClass, $ref, items, format, enum, default,
\* defaultValue, minimum, maximum, uniqueItems has exactly the response
\* {'200': {description: 'No response was specified'}}.
C10_DefaultResponse == defaultResponseFor(ResponseFields)

\* reached: a returned document with an operation that has nothing to say
\* about its response and got the default one, and an operation whose
\* defaultValue alone made a schema
C10_Witness ==
  /\ returned
  /\ \E o \in inputOperations :
       /\ ~Has(o[2][3], "responseMessages")
       /\ DOMAIN o[2][3] \cap ResponseFields = {}
       /\ outputOperation(o).responses = NoResponse
  /\ \E o \in inputOperations :
       /\ DOMAIN o[2][3] \cap ResponseFields = {"defaultValue"}
       /\ Has(outputOperation(o).responses["200"], "schema")

-----------------------------------------------------------------------------
(* Properties of the definitions (SpecDefs) *)

\* the names X of the values '#/definitions/X' of $ref in a schema, a
\* parameter or a response, at any depth
RECURSIVE refsIn(_)
refsIn(s) ==
  (IF Has(s, "$ref") /\ Head(s["$ref"]) = RefPrefix THEN {Tail(s["$ref"])} ELSE {})
  \cup UNION {refsIn(s[k]) : k \in DOMAIN s \cap {"items", "additionalProperties", "schema"}}
  \cup (IF Has(s, "properties")
        THEN UNION {refsIn(s.properties[n]) : n \in DOMAIN s.properties} ELSE {})
  \cup (IF Has(s, "allOf")
        THEN UNION {refsIn(s.allOf[i]) : i \in DOMAIN s.allOf} ELSE {})

refsInOperation(operation) ==
  UNION {refsIn(operation.parameters[i]) : i \in DOMAIN GetSeq(operation, "parameters")}
  \cup UNION {refsIn(operation.responses[code]) : code \in DOMAIN operation.responses}

refsInDocument(document) ==
  UNION {UNION {refsInOperation(document.paths[p][m]) : m \in DOMAIN document.paths[p]} :
           p \in DOMAIN GetObj(document, "paths")}
  \cup UNION {refsIn(document.definitions[id]) : id \in DOMAIN GetObj(document, "definitions")}

\* the resources convert processes
processed == getResources(resourceListing, apiDeclarations).resources

\* the model ids of the processed resources
processedModelIds ==
  UNION {DOMAIN GetObj(processed[r], "models") : r \in DOMAIN processed}

\* C2: in every document convert returns, every $ref '#/definitions/X', at
\* any depth of the paths and of the definitions, names a key X of
\* definitions, unless X is a model id of no processed resource.
C2_DefinitionsComplete ==
  returned =>
    \A X \in refsInDocument(result.document) :
       \/ X \in DOMAIN GetObj(result.document, "definitions")
       \/ X \notin processedModelIds

\* reached: a returned document in which an operation of the first resource
\* refers to a model that only the second resource defines, and a definition
\* refers to another definition
C2_Witness ==
  /\ returned
  /\ ModelDog \notin DOMAIN GetObj(processed[1], "models")
  /\ ModelDog \in DOMAIN GetObj(processed[2], "models")
  /\ ModelDog \in refsInOperation(result.document.paths[PathA].get)
  /\ \E id \in DOMAIN result.document.definitions :
        refsIn(result.document.definitions[id]) \cap DOMAIN result.document.definitions # {}

\* resource r is the last processed resource that has a model childId
lastDefining(r, childId) ==
  /\ childId \in DOMAIN GetObj(processed[r], "models")
  /\ \A r2 \in DOMAIN processed :
        r2 > r => childId \notin DOMAIN GetObj(processed[r2], "models")

\* how often subTypes names childId
RECURSIVE occurrences(_, _)
occurrences(subTypes, childId) ==
  IF subTypes = <<>> THEN 0
  ELSE (IF Head(subTypes) = childId THEN 1 ELSE 0) + occurrences(Tail(subTypes), childId)

\* the references to the parents of childId in resource r: the parents in
\* the sorted order of their ids, each as often as it names the child
RECURSIVE parentRefs(_, _, _)
parentRefs(models, parentIds, childId) ==
  IF parentIds = <<>> THEN <<>>
  ELSE [i \in 1..occurrences(GetSeq(models[Head(parentIds)], "subTypes"), childId) |->
          refTo(Head(parentIds))]
       \o parentRefs(models, Tail(parentIds), childId)

parentRefsOf(r, childId) ==
  parentRefs(processed[r].models, SortedKeys(processed[r].models), childId)

\* the child's own translated schema
ownSchema(r, childId) ==
  buildModel(processed[r].models[childId], customTypesOf(processed))

\* the children of resource r the definitions of the document come from
inheriting ==
  {<<r, childId>> \in (DOMAIN processed) \X ModelIds :
     /\ lastDefining(r, childId)
     /\ parentRefsOf(r, childId) # <<>>}

-----------------------------------------------------------------------------
(* Properties of the tags (SpecTags) *)

\* the tag name derived for listing entry i, '' when the entry yields none
derivedTag(i) ==
  tagName(stripCommonPath(tagSourcePaths(resourceListing, processed, options)), i)

\* the operations made from the declaration that listing entry i resolves to
operationsOfEntry(i) == {o \in inputOperations : o[1] = listingApis[i].path}

\* C9: in the referenced variant every operation made from the declaration of
\* listing entry i carries the tag name derived for entry i and carries the
\* tag derived for no other entry, unless the operation lists it itself; also
\* when some entry yields no tag.
C9_TaggedByOwnEntry ==
  (returned /\ referencedListing) =>
    \A i \in DOMAIN listingApis :
       \A o \in operationsOfEntry(i) :
          LET tags == Range(GetSeq(outputOperation(o), "tags"))
          IN /\ isValueStr(derivedTag(i)) => derivedTag(i) \in tags
             /\ \A j \in DOMAIN listingApis :
                   (/\ j # i
                    /\ isValueStr(derivedTag(j))
                    /\ derivedTag(j) # derivedTag(i)
                    /\ derivedTag(j) \notin Range(GetSeq(o[2][3], "tags")))
                   => derivedTag(j) \notin tags

-----------------------------------------------------------------------------
(* Properties of the parameters (SpecParams) *)

\* the one parameter of the one operation handed to convert
oldParameterIn(apiDecls) == apiDecls[PathA].apis[1].operations[1].parameters[1]

\* the parameter made from it in a returned document
parameterIn(document) == document.paths[PathA].get.parameters[1]

\* all parameters of all operations of a document
parametersOf(document) ==
  UNION {UNION {Range(GetSeq(document.paths[p][m], "parameters")) :
                  m \in DOMAIN document.paths[p]} :
         p \in DOMAIN GetObj(document, "paths")}

\* C11: every parameter of a returned document with in = 'path' has
\* required = true, whatever the required of the source parameter was
\* (absent, false, 'false', ''), also when allowMultiple made it an array.
C11_PathRequired ==
  returned =>
    \A parameter \in parametersOf(result.document) :
       Get(parameter, "in") = "path" =>
         Has(parameter, "required") /\ parameter.required = JsTrue

\* reached: a path parameter declared with required 'false' and allowMultiple
\* true came out as a required array
C11_Witness ==
  /\ returned
  /\ oldParameterIn(apiDeclarations).paramType = "path"
  /\ Get(oldParameterIn(apiDeclarations), "required") = "false"
  /\ Get(oldParameterIn(apiDeclarations), "allowMultiple") = JsTrue
  /\ parameterIn(result.document).type = <<"array">>
  /\ parameterIn(result.document).required = JsTrue

\* an object without one of its keys
without(o, k) == [x \in DOMAIN o \ {k} |-> o[x]]

\* allowMultiple is the boolean true or the string 'true' in any letter case
isTrueFlag(value) == value = JsTrue \/ toLowerCase(value) = "true"

\* what convert makes of the parameter when its allowMultiple is taken away
plainParameter ==
  parameterIn(convert(resourceListing,
                      declarationsOf(parameterOperation(
                        <<without(oldParameterIn(apiDeclarations), "allowMultiple")>>)),
                      options).document)

\* the keys of an output parameter that are not part of its schema
ParameterKeys == {"in", "description", "name", "required"} \cup ExtensionKeys

\* the translated schema of an output parameter
schemaOf(parameter) == [k \in DOMAIN parameter \ ParameterKeys |-> parameter[k]]

\* C12: for a non-body parameter whose allowMultiple is true or 'true' in
\* any letter case: when the type it resolves to is not 'array' the output
\* parameter has type 'array' and its items are the translated schema of the
\* parameter; when the type is 'array' already, the output is the one made
\* without allowMultiple, never an array of arrays.
C12_AllowMultiple ==
  (/\ returned
   /\ oldParameterIn(apiDeclarations).paramType # "body"
   /\ isTrueFlag(Get(oldParameterIn(apiDeclarations), "allowMultiple")))
  => IF plainParameter.type # <<"array">>
     THEN /\ parameterIn(result.document).type = <<"array">>
          /\ parameterIn(result.document).items = schemaOf(plainParameter)
     ELSE /\ parameterIn(result.document) = plainParameter
          /\ parameterIn(result.document).items.type # <<"array">>

\* reached: allowMultiple 'TRUE' wrapped a required integer parameter into an
\* array of integers
C12_Witness ==
  /\ returned
  /\ oldParameterIn(apiDeclarations).paramType = "query"
  /\ Get(oldParameterIn(apiDeclarations), "allowMultiple") = "TRUE"
  /\ Get(oldParameterIn(apiDeclarations), "required") = JsTrue
  /\ GetStr(oldParameterIn(apiDeclarations), "type") = <<"integer">>
  /\ parameterIn(result.document).type = <<"array">>
  /\ parameterIn(result.document).items = [type |-> <<"integer">>]

-----------------------------------------------------------------------------
(* Properties of the literals (SpecLiterals) *)

\* the descriptors of the declaration handed to convert, by place
descriptorsOf(apiDecls) ==
  LET declaration == apiDecls[PathA]
      operation == declaration.apis[1].operations[1]
  IN [p \in Places |->
        CASE p = "query" -> operation.parameters[1]
          [] p = "items" -> operation.parameters[1].items
          [] p = "body" -> operation.parameters[2]
          [] p = "operation" -> operation
          [] p = "model" -> declaration.models[ModelDog]
          [] p = "property" -> declaration.models[ModelDog].properties[PropertyN]]

\* what the returned document holds for the descriptor at a place
translatedAt(document, p) ==
  LET operation == document.paths[PathA].get
  IN CASE p = "query" -> operation.parameters[1]
       [] p = "items" -> operation.parameters[1].items
       [] p = "body" -> operation.parameters[2].schema
       [] p = "operation" -> GetObj(operation.responses["200"], "schema")
       [] p = "model" -> document.definitions[ModelDog]
       [] p = "property" -> document.definitions[ModelDog].properties[PropertyN]

\* the strings that are neither 'true' or 'false' in some letter case, nor
\* empty, nor a JSON literal
MalformedLiterals == {"maybe", "{"}

DataTypeLiterals == {"uniqueItems", "minimum", "maximum"}

\* the fields of a descriptor, by place, that the claim is about
ClaimedLiterals ==
  [p \in Places |->
     CASE p \in {"query", "body"} -> DataTypeLiterals \cup {"required", "allowMultiple"}
       [] p = "operation" -> DataTypeLiterals \cup {"deprecated"}
       [] p = "property" -> DataTypeLiterals \cup {"required"}
       [] OTHER -> DataTypeLiterals]

\* the same, allowMultiple being a field of the parameters only that are not
\* body parameters
ConvertedLiterals ==
  [ClaimedLiterals EXCEPT !["body"] = @ \ {"allowMultiple"}]

\* the declared type of the descriptor does not translate to 'string'
notStringTyped(descriptor) ==
  GetStr(buildTypeProperties(oldTypeNameOf(descriptor), FALSE, <<>>), "type")
    # <<"string">>

\* the declaration with field f of the descriptor at place p taken away
withoutLiteral(apiDecls, place, f) ==
  LET d == descriptorsOf(apiDecls)
      bare == [p \in Places |->
                 [k \in DOMAIN d[p] \cap (LiteralFields \cup {"type"}) |-> d[p][k]]]
  IN declarationWith([bare EXCEPT ![place] = without(@, f)])

\* the policy for malformed literals, for the given fields by place
literalPolicy(fields) ==
  pc = "done" =>
    \A p \in Places :
       LET descriptor == descriptorsOf(apiDeclarations)[p]
       IN /\ \A f \in fields[p] :
               Get(descriptor, f) \in MalformedLiterals => result.threw # NoError
          /\ \A f \in {"default", "defaultValue"} :
               (Get(descriptor, f) \in MalformedLiterals /\ notStringTyped(descriptor))
               => /\ result.threw = NoError
                  /\ ~Has(translatedAt(result.document, p), "default")
          /\ \A f \in fields[p] \cup {"default", "defaultValue"} :
               (Has(descriptor, f) /\ descriptor[f] = "")
               => result = convert(resourceListing,
                                   withoutLiteral(apiDeclarations, p, f), options)

\* C14 as claimed: a malformed string in required, uniqueItems, minimum,
\* maximum, deprecated or allowMultiple makes convert raise an error, on a
\* body parameter as on any other.
C14_MalformedLiteralRaises == literalPolicy(ClaimedLiterals)

\* C14: a non-empty string that is neither 'true'/'false' in some letter case
\* nor a JSON literal makes convert raise an error when it is the value of
\* required, uniqueItems, minimum, maximum or deprecated, or of allowMultiple
\* of a parameter that is not a body parameter; as default or defaultValue of
\* a descriptor whose type is not 'string' it raises no error and the output
\* has no default; an empty string in any of these fields is treated as if
\* the field were absent, and so is allowMultiple of a body parameter,
\* whatever its value.
C14_LiteralPolicy ==
  /\ literalPolicy(ConvertedLiterals)
  /\ (pc = "done" /\ Has(descriptorsOf(apiDeclarations)["body"], "allowMultiple"))
     => result = convert(resourceListing,
                         withoutLiteral(apiDeclarations, "body", "allowMultiple"),
                         options)

\* reached: a malformed allowMultiple of the query parameter made convert
\* raise the error of fixNonStringValue
C14_Witness ==
  /\ raised /\ result.threw = ErrValue
  /\ Get(descriptorsOf(apiDeclarations)["query"], "allowMultiple") = "maybe"

-----------------------------------------------------------------------------
(* Properties of the empty sections (SpecEmpty) *)

\* all operations of a document
operationsIn(document) ==
  UNION {{document.paths[p][m] : m \in DOMAIN document.paths[p]} :
         p \in DOMAIN GetObj(document, "paths")}

\* field f of object o is missing (a key is never held with the value
\* undefined or null), or is a collection with something in it
absentOrFilled(o, f) == Has(o, f) => ~isEmpty(o[f])

\* C15: in every document convert returns, each of the top-level fields
\* tags, paths, securityDefinitions and definitions, and each of the fields
\* parameters, tags and security of every operation, is either absent or a
\* collection that is not empty.
C15_EmptyOmitted ==
  returned =>
    /\ \A f \in {"tags", "paths", "securityDefinitions", "definitions"} :
          absentOrFilled(result.document, f)
    /\ \A operation \in operationsIn(result.document) :
          \A f \in {"parameters", "tags", "security"} : absentOrFilled(operation, f)

\* reached: everything handed to convert is there and empty (authorizations
\* of the listing, of the declaration and of the operation, models,
\* parameters, tags, and a listing path that yields no tag), and the
\* returned operation has none of the fields
C15_Witness ==
  /\ returned
  /\ DOMAIN apiDeclarations = {PathRoot}
  /\ Has(resourceListing, "authorizations") /\ resourceListing.authorizations = EmptyObj
  /\ Has(apiDeclarations[PathRoot], "models") /\ apiDeclarations[PathRoot].models = EmptyObj
  /\ Has(apiDeclarations[PathRoot], "authorizations")
  /\ apiDeclarations[PathRoot].authorizations = EmptyObj
  /\ \E o \in inputOperations :
        /\ \A f \in {"parameters", "tags", "authorizations"} : Has(o[2][3], f) /\ isEmpty(o[2][3][f])
        /\ DOMAIN outputOperation(o) = {"operationId", "responses"}
  /\ DOMAIN result.document = {"swagger", "info", "paths"}

-----------------------------------------------------------------------------
(* Properties of repeated calls (SpecCalls) *)

\* C16: after any sequence of earlier calls of convert, successful or failed,
\* with any inputs, convert(x, d, o) returns (or throws) what it does as the
\* first call: the custom type names and the security-name map of one call
\* have no influence on another call.
C16_Stateless ==
  pc = "done" => result = convert(resourceListing, apiDeclarations, options)

\* reached: after a call that knew a model named 'integer' and the two names
\* of the OAuth2 authorization, a call without models and without
\* authorizations of the listing returned an operation of the primitive type
\* integer that requires 'oauth2' under its own name
C16_Witness ==
  /\ returned
  /\ history.calls >= 2
  /\ ModelInteger \in Range(GetSeq(history.earlier, "customTypes"))
  /\ AuthOAuth \in DOMAIN GetObj(history.earlier, "securityNamesMap")
  /\ ~Has(resourceListing, "authorizations")
  /\ ~Has(apiDeclarations[PathA], "models")
  /\ result.document.paths[PathA].get.responses["200"].schema = [type |-> <<"integer">>]
  /\ GetSeq(result.document.paths[PathA].get, "security") = <<AuthOAuth :> <<"s">>>>

-----------------------------------------------------------------------------
(* Properties of listApiDeclarations (SpecList) *)

\* the entry has an operations field, filled or empty
hasInlineOperations(entry) == Has(entry, "operations")

sourceBase == SubSeq(sourceUrl, 1, indexOf(sourceUrl, "?", 1) - 1)

\* the base of the listing: its basePath when there is one, an absolute one
\* as it is, a relative one resolved against the source URL; else the source
\* URL
listingBase ==
  LET basePath == GetStr(resourceListing, "basePath")
  IN IF ~isValueStr(basePath) THEN sourceBase
     ELSE IF basePath[1] \in Schemes THEN uriHref(uriParts(basePath))
     ELSE SubSeq(sourceBase, 1, 2)
          \o absoluteToPath(basePath, SubSeq(sourceBase, 3, Len(sourceBase)))

\* the base ends in a file with the suffix 'json'
endsInJsonFile(base) ==
  /\ Len(base) >= 3
  /\ base[Len(base)] = "json" /\ base[Len(base) - 1] = "." /\ base[Len(base) - 2] # "/"

\* the base the entry paths are appended to: for version 1.0 without the
\* file name
appendedTo ==
  IF Get(resourceListing, "swaggerVersion") = "1.0" /\ endsInJsonFile(listingBase)
  THEN SubSeq(listingBase, 1, lastIndexOf1(listingBase, "/"))
  ELSE listingBase

\* a URL as it is returned: '//' in the path collapsed, a slash in the query
\* encoded
normalized(url) == uriHref(uriNormalize(uriParts(url)))

isAbsoluteUrl(path) == path # <<>> /\ path[1] \in Schemes

\* the value for every listed entry path that is relative: the path, with
\* '{format}' replaced by 'json', appended to the base
relativeResolved ==
  \A path \in DOMAIN result.document :
     ~isAbsoluteUrl(path) =>
        result.document[path]
          = normalized(appendedTo \o replaceFirst(path, "{format}", "json"))

\* C18 as claimed: an entry path that is an absolute URL is returned
\* unchanged, whatever the base is.
C18_AbsoluteUnchanged ==
  pc = "done" =>
    /\ relativeResolved
    /\ \A path \in DOMAIN result.document :
          isAbsoluteUrl(path) => result.document[path] = path

\* C18: the base is resourceListing.basePath when present (resolved against
\* sourceUrl when relative), else sourceUrl without its query; when
\* swaggerVersion is exactly '1.0' and the base ends in a file with suffix
\* 'json' the file name is taken away before the entry path is appended, for
\* every other swaggerVersion the entry path is appended to the whole base,
\* file name included; an entry path that is an absolute URL is returned
\* with '{format}' replaced by 'json' and normalized, the same whatever the
\* base is.
C18_BaseResolution ==
  pc = "done" =>
    /\ relativeResolved
    /\ \A path \in DOMAIN result.document :
          isAbsoluteUrl(path) =>
             result.document[path] = normalized(replaceFirst(path, "{format}", "json"))

\* reached: for version 1.0 the file name of the source URL went away, and an
\* absolute entry path came back with '{format}' replaced
C18_Witness ==
  /\ pc = "done"
  /\ Get(resourceListing, "swaggerVersion") = "1.0"
  /\ ~Has(resourceListing, "basePath")
  /\ sourceUrl = <<"http:", "//h", "/", "c", "/", "a", ".", "json", "?", "k">>
  /\ DOMAIN result.document
       = {<<"/", "b">>, <<"http:", "//g", "/", "c", ".", "{format}">>}
  /\ result.document[<<"/", "b">>] = <<"http:", "//h", "/", "c", "/", "b">>
  /\ result.document[<<"http:", "//g", "/", "c", ".", "{format}">>]
       = <<"http:", "//g", "/", "c", ".", "json">>

-----------------------------------------------------------------------------
(* Properties of the paths of two resources (SpecMerge) *)

\* the api entries of the resource at key that name the path string p
entriesAt(key, p) ==
  {i \in DOMAIN apiDeclarations[key].apis :
     pathStringOf(apiDeclarations[key].apis[i].path) = p}

\* the methods the resource at key contributes to the path string p
contributed(key, p) ==
  {toLowerCase(apiDeclarations[key].apis[i].operations[1].method) :
     i \in entriesAt(key, p)}

\* the path strings the two resources name
contributedPaths ==
  {pathStringOf(path) : path \in MergePaths}
    \cap {p \in SeqsUpTo({"/", "a", "b"}, 2) :
            contributed(PathA, p) \cup contributed(PathB, p) # {}}

\* the nickname the operation of a method of p came in with: the one of the
\* later resource that has the method
expectedNickname(p, method) ==
  IF method \in contributed(PathB, p) THEN "second" ELSE "first"

\* C19: when two resources of one conversion contribute operations to the
\* same normalized path string, the path item of that path holds the methods
\* of both resources, and a method both contribute is the later resource's.
C19_PerMethodMerge ==
  (pc = "done" /\ result.threw = NoError) =>
    /\ DOMAIN result.document.paths = contributedPaths
    /\ \A p \in contributedPaths :
          /\ DOMAIN result.document.paths[p]
               = contributed(PathA, p) \cup contributed(PathB, p)
          /\ \A method \in DOMAIN result.document.paths[p] :
                result.document.paths[p][method].operationId
                  = expectedNickname(p, method)

\* what the code does: the path item of a path is the one of the last
\* resource that names the path; the methods of one resource accumulate
pathItemOfLastResource ==
  (pc = "done" /\ result.threw = NoError) =>
    /\ DOMAIN result.document.paths = contributedPaths
    /\ \A p \in contributedPaths :
          LET key == IF contributed(PathB, p) # {} THEN PathB ELSE PathA
          IN /\ DOMAIN result.document.paths[p] = contributed(key, p)
             /\ \A method \in DOMAIN result.document.paths[p] :
                   result.document.paths[p][method].operationId
                     = (IF key = PathB THEN "second" ELSE "first")

\* reached: the first resource has a GET and the second a POST at '/a', and
\* the returned path item has the POST only
methodOfEarlierResourceLost ==
  /\ pc = "done" /\ result.threw = NoError
  /\ contributed(PathA, PathA) = {"get"}
  /\ contributed(PathB, PathA) = {"post"}
  /\ DOMAIN result.document.paths[PathA] = {"post"}

-----------------------------------------------------------------------------
(* Properties of declarations without basePath (SpecBase) *)

\* C20: a declaration without basePath never causes the error 'Resources can
\* not override each other basePaths', wherever it stands among the
\* declarations; the error is raised only if two declarations that both have
\* a basePath resolve to different values.
C20_OnlyDeclaredConflict ==
  (pc = "done" /\ result.threw = ErrBasePath) => conflictingBasePaths

\* reached: the only basePath is the one of the first declaration, the
\* second has none, and the error is raised
undeclaredAfterDeclaredRaises ==
  /\ pc = "done"
  /\ DOMAIN apiDeclarations = {PathA, PathB}
  /\ GetStr(apiDeclarations[PathA], "basePath") = <<"http:", "//h", "/", "a">>
  /\ ~Has(apiDeclarations[PathB], "basePath")
  /\ result.threw = ErrBasePath

\* reached: the same two declarations the other way round, and a document
\* is returned
undeclaredBeforeDeclaredPasses ==
  /\ pc = "done"
  /\ DOMAIN apiDeclarations = {PathA, PathB}
  /\ ~Has(apiDeclarations[PathA], "basePath")
  /\ GetStr(apiDeclarations[PathB], "basePath") = <<"http:", "//h", "/", "a">>
  /\ result.threw = NoError

-----------------------------------------------------------------------------
(* Properties of the defaults (SpecDefaults) *)

\* the value as the output holds it: converted when the type of the
\* descriptor is not 'string'
coerced(descriptor, value) ==
  IF notStringTyped(descriptor) THEN fixNonStringValue(value, TRUE) ELSE value

\* the field default of the output is the value; it is missing when the
\* value is undefined, null or the empty string
defaultIs(translated, value) ==
  IF isValue(value) THEN Get(translated, "default") = value
  ELSE ~Has(translated, "default")

\* C21: for every data-type descriptor the output default is derived from
\* the field default when that field is present and otherwise from
\* defaultValue; when the type is not 'string' the chosen value is converted
\* ('0' becomes 0), and a boolean or a number, false and 0 included, is
\* carried through unchanged.
C21_DefaultUnified ==
  (pc = "done" /\ result.threw = NoError) =>
    \A p \in Places :
       LET descriptor == descriptorsOf(apiDeclarations)[p]
           chosen == IF Has(descriptor, "default") THEN descriptor["default"]
                     ELSE Get(descriptor, "defaultValue")
       IN defaultIs(translatedAt(result.document, p), coerced(descriptor, chosen))

\* what the code does: the field default is taken when it is truthy, and
\* defaultValue otherwise, so that false, 0 and '' in default give way
defaultUnlessFalsy ==
  (pc = "done" /\ result.threw = NoError) =>
    \A p \in Places :
       LET descriptor == descriptorsOf(apiDeclarations)[p]
           chosen == IF Get(descriptor, "default") \in {Undef, Null, "", JsFalse, "#0"}
                     THEN Get(descriptor, "defaultValue")
                     ELSE descriptor["default"]
       IN defaultIs(translatedAt(result.document, p), coerced(descriptor, chosen))

\* reached: the query parameter has the default false and no defaultValue,
\* and the parameter of the output has no default
falseDefaultLost ==
  /\ pc = "done" /\ result.threw = NoError
  /\ Get(descriptorsOf(apiDeclarations)["query"], "default") = JsFalse
  /\ ~Has(descriptorsOf(apiDeclarations)["query"], "defaultValue")
  /\ ~Has(translatedAt(result.document, "query"), "default")

\* reached: the string '0' of an integer comes out as the number 0
zeroStringConverted ==
  /\ pc = "done" /\ result.threw = NoError
  /\ Get(descriptorsOf(apiDeclarations)["property"], "default") = "0"
  /\ GetStr(descriptorsOf(apiDeclarations)["property"], "type") = <<"integer">>
  /\ Get(translatedAt(result.document, "property"), "default") = "#0"

-----------------------------------------------------------------------------
(* Properties of the type names (SpecTypes) *)

\* the names of the models of the declaration
knownModels == DOMAIN apiDeclarations[PathA].models

\* the name is one of typeMap, in any letter case
isMapped(name) == Len(name) = 1 /\ toLowerCase(name[1]) \in DOMAIN typeMap

mapped(name) == typeMap[toLowerCase(name[1])]

\* a name of typeMap is translated by typeMap, whatever the models are; the
\* models are asked about the other names only
mappedFirst(name, allowRef) ==
  IF isMapped(name) THEN mapped(name)
  ELSE IF allowRef THEN refTo(name)
  ELSE [type |-> name]

\* the name of a model is a reference where references are allowed, also
\* when it is a name of typeMap; typeMap is asked about the other names
modelFirst(name, allowRef) ==
  IF allowRef /\ name \in knownModels THEN refTo(name)
  ELSE mappedFirst(name, allowRef)

\* the fields of a translated descriptor that say what its type is
TypeFields == {"$ref", "type", "format", "items", "uniqueItems"}

typeOf(translated) == [k \in DOMAIN translated \cap TypeFields |-> translated[k]]

\* the place where the type is named, the name, and whether references are
\* allowed there
typedPlace == CHOOSE p \in TypedPlaces : Has(descriptorsOf(apiDeclarations)[p], "type")
typeNamed == descriptorsOf(apiDeclarations)[typedPlace].type
refsAllowed == typedPlace # "query"

\* C22 as claimed: a type name that matches a name of typeMap in any letter
\* case is always translated to the entry of typeMap; a model whose id is
\* such a name does not turn the type into a $ref.
C22_MappedNameFirst ==
  (pc = "done" /\ result.threw = NoError) =>
    typeOf(translatedAt(result.document, typedPlace))
      = IF Len(typeNamed) = 1 THEN mappedFirst(typeNamed, refsAllowed)
        ELSE [type |-> <<"array">>, items |-> mappedFirst(<<typeNamed[3]>>, refsAllowed)]

\* C22: where references are allowed, a type name that is exactly the id of
\* a known model is translated to the $ref of that model, also when it
\* matches a name of typeMap; every other name that matches a name of typeMap
\* in any letter case is translated to that entry, and where references are
\* not allowed the models are not asked at all.
C22_ModelNameFirst ==
  (pc = "done" /\ result.threw = NoError) =>
    typeOf(translatedAt(result.document, typedPlace))
      = IF Len(typeNamed) = 1 THEN modelFirst(typeNamed, refsAllowed)
        ELSE [type |-> <<"array">>, items |-> modelFirst(<<typeNamed[3]>>, refsAllowed)]

\* reached: a property of type 'string' where a model has the id 'string'
\* comes out as the $ref of that model
C22_Witness ==
  /\ pc = "done" /\ result.threw = NoError
  /\ typedPlace = "property" /\ typeNamed = ModelString
  /\ ModelString \in knownModels
  /\ translatedAt(result.document, "property") = refTo(ModelString)

-----------------------------------------------------------------------------
(* Properties of the responses (SpecResponses) *)

\* the operation handed to convert and the responses of its translation
oldOperationA == apiDeclarations[PathA].apis[1].operations[1]
responsesA == result.document.paths[PathA].get.responses

\* the code of a response message as a key: 200 and '200' are the same key
codeKey(oldResponse) == IF oldResponse.code = "#404" THEN "404" ELSE "200"

\* the response message that stays under a key: the last one with that code
lastWith(key) ==
  LET messages == oldOperationA.responseMessages
      last == CHOOSE i \in DOMAIN messages :
                /\ codeKey(messages[i]) = key
                /\ \A j \in DOMAIN messages : codeKey(messages[j]) = key => j <= i
  IN messages[last]

messageKeys == {codeKey(oldOperationA.responseMessages[i]) :
                  i \in DOMAIN oldOperationA.responseMessages}

\* the schema of the type of the operation itself; none for no type and for
\* 'void'
ownTypeSchema ==
  LET type == GetStr(oldOperationA, "type")
  IN IF type = <<"string">> THEN "schema" :> [type |-> <<"string">>]
     ELSE IF type = ModelDog THEN "schema" :> ("$ref" :> <<"#/definitions/", "Dog">>)
     ELSE EmptyObj

\* the response a response message alone makes
messageResponse(oldResponse) ==
  ("description" :> (IF Get(oldResponse, "message") = "ok" THEN "ok"
                     ELSE "Description was not specified"))
  @@ (IF Has(oldResponse, "responseModel")
      THEN "schema" :> ("$ref" :> (<<"#/definitions/">> \o oldResponse.responseModel))
      ELSE EmptyObj)

\* C23: the data type of the operation is applied to the response '200'
\* after all response messages: with a response message of code 200 the
\* response '200' keeps the description of that message and, when the type of
\* the operation is not empty, has the translation of that type as its
\* schema in place of the one of the responseModel; every other response
\* message (the last one of each code) is the response under its code as a
\* string, with the description 'Description was not specified' when it has
\* none.
C23_OwnTypeAfterMessages ==
  (pc = "done" /\ result.threw = NoError) =>
    /\ DOMAIN responsesA = {"200"} \cup messageKeys
    /\ \A key \in messageKeys \ {"200"} : responsesA[key] = messageResponse(lastWith(key))
    /\ "200" \in messageKeys =>
         responsesA["200"] = ownTypeSchema @@ messageResponse(lastWith("200"))
    /\ "200" \notin messageKeys =>
         responsesA["200"] = ownTypeSchema @@ [description |-> "No response was specified"]

\* reached: the operation returns a string, its response message 200 names
\* a model, and the response '200' has the message's description and the
\* string schema
C23_Witness ==
  /\ pc = "done" /\ result.threw = NoError
  /\ oldOperationA.responseMessages
       = <<[code |-> "#200", message |-> "ok", responseModel |-> ModelDog]>>
  /\ GetStr(oldOperationA, "type") = <<"string">>
  /\ responsesA = ("200" :> [description |-> "ok", schema |-> [type |-> <<"string">>]])

-----------------------------------------------------------------------------
(* Properties of the security definitions (SpecSecurity) *)

\* the authorizations of the listing, the definitions of the returned
\* document and the security-name map the converter is left with
declaredAuthorizations == GetObj(resourceListing, "authorizations")
securityDefinitionsOut == GetObj(result.document, "securityDefinitions")
securityNamesMapLeft == GetObj(history.latest, "securityNamesMap")

\* the grant types of a declared authorization; none when it has no field
\* grantTypes
grantTypesOf(name) == DOMAIN GetObj(declaredAuthorizations[name], "grantTypes")

\* the authorization is one the claim speaks of: without grantTypes, with
\* one grant type, or with implicit and authorization_code
splitCase(name) ==
  \/ ~Has(declaredAuthorizations[name], "grantTypes")
  \/ Cardinality(grantTypesOf(name)) = 1
  \/ grantTypesOf(name) = {<<"implicit">>, <<"authorization_code">>}

\* the keys of the definitions made for the authorization
generatedKeys(name) ==
  IF Cardinality(grantTypesOf(name)) = 2
  THEN {Append(name, "_implicit"), Append(name, "_accessCode")}
  ELSE {name}

\* C24: an authorization without grantTypes gives exactly one security
\* definition, under its own name; one with exactly one grant type gives
\* exactly one, under its own name; one with implicit and authorization_code
\* gives exactly two, '<name>_implicit' with flow implicit and
\* '<name>_accessCode' with flow accessCode, and none under the bare name; in
\* every case the security-name map lists for the name exactly the keys made.
C24_OAuthSplit ==
  (pc = "done" /\ result.threw = NoError) =>
    /\ \A name \in DOMAIN declaredAuthorizations :
          splitCase(name) =>
            /\ generatedKeys(name) \subseteq DOMAIN securityDefinitionsOut
            /\ Cardinality(grantTypesOf(name)) = 2 =>
                 /\ name \notin DOMAIN securityDefinitionsOut
                 /\ securityDefinitionsOut[Append(name, "_implicit")].flow = "implicit"
                 /\ securityDefinitionsOut[Append(name, "_accessCode")].flow = "accessCode"
            /\ Range(securityNamesMapLeft[name]) = generatedKeys(name)
            /\ Len(securityNamesMapLeft[name]) = Cardinality(generatedKeys(name))
    /\ (\A name \in DOMAIN declaredAuthorizations : splitCase(name)) =>
         DOMAIN securityDefinitionsOut
           = UNION {generatedKeys(name) : name \in DOMAIN declaredAuthorizations}

\* reached: 'oauth2' has both grant types and 'apiKey' has none, and the
\* document has the three definitions
C24_Witness ==
  /\ pc = "done" /\ result.threw = NoError
  /\ DOMAIN declaredAuthorizations = {AuthOAuth, AuthKey}
  /\ grantTypesOf(AuthOAuth) = {<<"implicit">>, <<"authorization_code">>}
  /\ DOMAIN securityDefinitionsOut
       = {AuthKey, <<"oauth2", "_implicit">>, <<"oauth2", "_accessCode">>}
  /\ Range(securityNamesMapLeft[AuthOAuth])
       = {<<"oauth2", "_implicit">>, <<"oauth2", "_accessCode">>}
  /\ securityNamesMapLeft[AuthKey] = <<AuthKey>>

\* the authorizations the operation asks for and the security requirements
\* of its translation
askedAuthorizations == GetObj(apiDeclarations[PathA].apis[1].operations[1], "authorizations")
securityOut == GetSeq(result.document.paths[PathA].get, "security")

\* the names the security-name map has for a legacy name; the legacy name
\* itself when the map has none
requiredKeys(oldName) ==
  LET known == IF oldName \in DOMAIN securityNamesMapLeft
               THEN Range(securityNamesMapLeft[oldName]) ELSE {}
  IN IF known = {} THEN {oldName} ELSE known

\* the scope names asked of a legacy name, in their order
scopeNames(oldName) ==
  [j \in DOMAIN askedAuthorizations[oldName] |-> askedAuthorizations[oldName][j].scope]

\* the requirements the authorizations asked for expand to
expectedRequirements ==
  UNION {{key :> scopeNames(oldName) : key \in requiredKeys(oldName)} :
           oldName \in DOMAIN askedAuthorizations}

\* C25: the security list of an operation with the authorizations A has, for
\* each legacy name n of A and each name g the security-name map has for n,
\* exactly one requirement {g: [scope names of A[n]]}, for a name n the map
\* has no name for exactly one requirement {n: [scope names]}, and no other
\* requirement.
C25_RequirementsExpanded ==
  (pc = "done" /\ result.threw = NoError) =>
    /\ Range(securityOut) = expectedRequirements
    /\ Len(securityOut) = Cardinality(expectedRequirements)

\* reached: the operation asks for 'oauth2', which has two definitions, and
\* for 'basic', which the listing does not declare; its security list has the
\* three requirements
C25_Witness ==
  /\ pc = "done" /\ result.threw = NoError
  /\ DOMAIN askedAuthorizations = {AuthOAuth, AuthBasic}
  /\ Len(GetSeq(securityNamesMapLeft, AuthOAuth)) = 2
  /\ scopeNames(AuthOAuth) = <<"s", "t">>
  /\ Range(securityOut)
       = {<<"oauth2", "_implicit">> :> <<"s", "t">>,
          <<"oauth2", "_accessCode">> :> <<"s", "t">>,
          AuthBasic :> scopeNames(AuthBasic)}
  /\ Len(securityOut) = 3

-----------------------------------------------------------------------------
(* Properties of the declarations the listing does not refer to (SpecBase) *)

\* the paths of the entries of the listing that refer to a declaration
referencedPaths ==
  {resourceListing.apis[i].path : i \in DOMAIN GetSeq(resourceListing, "apis")}

\* the declarations handed to convert that the listing refers to
referencedDeclarations ==
  [k \in DOMAIN apiDeclarations \cap referencedPaths |-> apiDeclarations[k]]

\* C26: what convert returns, or raises, is what it returns or raises when
\* it is handed the referenced declarations only: a declaration under a key
\* that is no path of the listing changes nothing.
C26_OnlyReferenced ==
  pc = "done" => result = convert(resourceListing, referencedDeclarations, options)

\* reached: the listing refers to '/a', which has no basePath; the declaration
\* '/b', which it does not refer to, has one, and the document has its host
unreferencedBasePathUsed ==
  /\ pc = "done" /\ result.threw = NoError
  /\ referencedPaths = {PathA} /\ DOMAIN apiDeclarations = {PathA, PathB}
  /\ ~Has(resourceListing, "basePath")
  /\ ~Has(apiDeclarations[PathA], "basePath")
  /\ GetStr(apiDeclarations[PathB], "basePath") = <<"http:", "//h", "/", "b">>
  /\ Has(result.document, "host")
  /\ ~Has(convert(resourceListing, referencedDeclarations, options).document, "host")

\* reached: the declaration the listing does not refer to makes the call fail
unreferencedBasePathRaises ==
  /\ pc = "done" /\ result.threw = ErrBasePath
  /\ referencedPaths = {PathA} /\ DOMAIN apiDeclarations = {PathA, PathB}
  /\ convert(resourceListing, referencedDeclarations, options).threw = NoError

-----------------------------------------------------------------------------
(* Properties of listApiDeclarations followed by convert (SpecLoad) *)

\* the paths convert looks up in apiDeclarations: the paths of the entries
\* that have a path and no operation, as long as no entry before them is an
\* embedded one
requiredPaths ==
  LET apis == GetSeq(resourceListing, "apis")
      isEmbedded(i) == ~isValueStr(GetStr(apis[i], "path"))
                       \/ ~isEmptyAt(apis[i], "operations")
  IN {apis[i].path : i \in {j \in DOMAIN apis :
                              \A k \in 1..j : ~isEmbedded(k)}}

\* C27: the paths for which convert requires a declaration are among the
\* keys listApiDeclarations returns for the same listing, so that a caller
\* who loads a declaration for every key returned and hands the map to
\* convert never gets the error of a missing declaration, also for entries
\* whose operations field is present but empty.
C27_LocatorCoversConverter ==
  /\ pc = "done" => requiredPaths \subseteq DOMAIN result.document
  /\ pc = "converted" => result.threw # ErrMissing

\* reached: the only entry has an empty operations list, no key was returned
\* for it, and convert misses its declaration
emptyOperationsNotListed ==
  /\ pc = "converted"
  /\ resourceListing.apis = <<[path |-> PathA, operations |-> <<>>]>>
  /\ apiDeclarations = EmptyObj
  /\ result.threw = ErrMissing

\* reached: with references only, the declarations loaded are the ones
\* convert asks for, and a document is returned
referencesLoaded ==
  /\ pc = "converted"
  /\ resourceListing.apis = <<[path |-> PathA], [path |-> PathB]>>
  /\ DOMAIN apiDeclarations = {PathA, PathB}
  /\ result.threw = NoError

-----------------------------------------------------------------------------
(* Properties of the security requirements and definitions (SpecSecurity) *)

\* the legacy names, among the ones the operation asks for, that a key of a
\* requirement stands for
legacyNamesOf(key) ==
  {oldName \in DOMAIN askedAuthorizations : key \in requiredKeys(oldName)}

\* C28: in every document returned, the key of every security requirement
\* of an operation whose legacy authorization name is declared in
\* resourceListing.authorizations is a key of securityDefinitions, also when
\* the declared authorization has an empty grantTypes object.
C28_RequirementsDefined ==
  (pc = "done" /\ result.threw = NoError) =>
    \A i \in DOMAIN securityOut :
       \A key \in DOMAIN securityOut[i] :
          legacyNamesOf(key) \cap DOMAIN declaredAuthorizations # {}
            => key \in DOMAIN securityDefinitionsOut

\* the same for the declared authorizations that have no grantTypes field
\* or at least one grant type: what the code keeps
requirementsDefinedUnlessNoGrant ==
  (pc = "done" /\ result.threw = NoError) =>
    \A i \in DOMAIN securityOut :
       \A key \in DOMAIN securityOut[i] :
          (\E oldName \in legacyNamesOf(key) \cap DOMAIN declaredAuthorizations :
              Has(declaredAuthorizations[oldName], "grantTypes")
                => grantTypesOf(oldName) # {})
            => key \in DOMAIN securityDefinitionsOut

\* reached: 'oauth2' is declared with grantTypes {} and asked for by the
\* operation, which requires 'oauth2', and the document has no security
\* definitions at all
requirementWithoutDefinition ==
  /\ pc = "done" /\ result.threw = NoError
  /\ DOMAIN declaredAuthorizations = {AuthOAuth}
  /\ Has(declaredAuthorizations[AuthOAuth], "grantTypes")
  /\ grantTypesOf(AuthOAuth) = {}
  /\ DOMAIN askedAuthorizations = {AuthOAuth}
  /\ Len(securityOut) = 1 /\ DOMAIN securityOut[1] = {AuthOAuth}
  /\ ~Has(result.document, "securityDefinitions")

-----------------------------------------------------------------------------
(* Properties of convertFromUrl (SpecUrl) *)

\* what the fetches started so far were answered with
answers == {requests[j].state : j \in DOMAIN requests}

\* a fetch or a parse that failed
Failures == {"badjson", "status", "error"}

\* the root and every entry of the listing were fetched with status 200 and
\* parsed as JSON
allFetched ==
  /\ Len(requests) = 1 + Len(resourceListing.apis)
  /\ answers \cap (Failures \cup {Pending}) = {}

someFailed == answers \cap Failures # {}

\* C29: for every call convertFromUrl(baseUrl, cb), cb is eventually called
\* exactly once: with (null, document) when the root and all sub-resources
\* are fetched with status 200 and parse as JSON, with an error when the
\* root fetch, a sub-resource fetch (transport error or another status) or
\* a JSON parse fails, whatever the order the parallel fetches complete in
C29_CalledExactlyOnce ==
  /\ [](Len(callback) <= 1)
  /\ <>(Len(callback) = 1)
  /\ [](callback = <<"document">> => allFetched)
  /\ [](callback = <<"error">> => someFailed)
  /\ (allFetched ~> callback = <<"document">>)
  /\ (someFailed ~> callback = <<"error">>)

\* what the code keeps: cb is never called twice, a document is handed over
\* only after every fetch and parse succeeded, an error only after a failure
calledAtMostOnce ==
  /\ Len(callback) <= 1
  /\ callback = <<"document">> => allFetched
  /\ callback = <<"error">> => someFailed

\* what the code keeps: a failure of the root is handed to cb in the step
\* that sees it, and no sub-resource is fetched
rootFailureCalledBack ==
  (requests # <<>> /\ requests[1].state \in Failures) =>
     callback = <<"error">> /\ Len(requests) = 1

\* reached: a sub-resource fetch ended with a transport error, every fetch
\* is answered, the error was logged and cb was not called
subErrorOnlyLogged ==
  /\ pc = "logged"
  /\ Pending \notin answers
  /\ requests[1].state = "ok"
  /\ "error" \in answers
  /\ callback = <<>>

\* reached: a sub-resource was answered with a status other than 200 and no
\* error, every fetch is answered, JSON.parse(undefined) threw outside any
\* try and cb was not called
subStatusThrown ==
  /\ pc = "thrown"
  /\ Pending \notin answers
  /\ answers = {"ok", "status"}
  /\ callback = <<>>

\* reached: the second entry was answered before the first
secondAnsweredFirst ==
  /\ pc = "subs"
  /\ Len(requests) >= 3
  /\ requests[2].state = Pending
  /\ requests[3].state = "ok"

-----------------------------------------------------------------------------
(* Properties of convert(sourceUri, callback) (SpecFile) *)

\* the reads of fragments started so far
fragmentReads == [j \in 1..(Len(requests) - 1) |-> requests[j + 1]]

rootReadFailed == requests # <<>> /\ requests[1].state \in Failures

\* C30: the callback is called exactly once per call; when reading or
\* parsing the root document fails the callback gets that error, no field
\* of the absent document is read and no fragment is fetched; fragments are
\* read one at a time in listing order, the first fragment error ends the
\* chain with callback(error), and the callback gets the document only
\* after the last fragment was merged
C30_CallbackOnceInOrder ==
  /\ [](Len(callback) <= 1)
  /\ <>(Len(callback) = 1)
  /\ [](rootReadFailed => callback = <<"error">> /\ pc # "thrown"
                          /\ fragmentReads = <<>>)
  /\ [](\A j \in DOMAIN fragmentReads :
           /\ fragmentReads[j].url = j
           /\ fragmentReads[j].state = Pending => j = Len(fragmentReads)
           /\ fragmentReads[j].state \in Failures =>
                 j = Len(fragmentReads) /\ callback = <<"error">>)
  /\ [](callback = <<"document">> =>
           \/ Has(resourceListing.apis[1], "operations")
           \/ /\ Len(fragmentReads) = Len(resourceListing.apis)
              /\ \A j \in DOMAIN fragmentReads : fragmentReads[j].state = "ok")

\* what the code keeps: the callback is never called twice, the fragments
\* are read one at a time in listing order, the first fragment error ends
\* the chain with callback(error), and the callback gets the document of a
\* listing of references only after the last fragment was read
fragmentsOneAtATime ==
  /\ Len(callback) <= 1
  /\ \A j \in DOMAIN fragmentReads :
        /\ fragmentReads[j].url = j
        /\ fragmentReads[j].state = Pending => j = Len(fragmentReads)
        /\ fragmentReads[j].state \in Failures =>
              j = Len(fragmentReads) /\ callback = <<"error">>
  /\ callback = <<"document">> =>
        \/ Has(resourceListing.apis[1], "operations")
        \/ /\ Len(fragmentReads) = Len(resourceListing.apis)
           /\ \A j \in DOMAIN fragmentReads : fragmentReads[j].state = "ok"
  /\ rootReadFailed => fragmentReads = <<>>

\* reached: the read of the root failed, source.apiVersion was read of the
\* absent document, which threw, and the callback was not called
rootFailureThrown ==
  /\ rootReadFailed
  /\ pc = "thrown"
  /\ callback = <<>>

\* reached: the second of three fragments failed, the third was not read and
\* the callback got the error
secondFragmentFailed ==
  /\ Len(resourceListing.apis) = 3
  /\ Len(fragmentReads) = 2
  /\ fragmentReads[1].state = "ok"
  /\ fragmentReads[2].state \in Failures
  /\ callback = <<"error">>

====
